---- MODULE Spec2Model ----
(***************************************************************************)
(* ODAT: the parallel worker pool of run_analyzer.py (loader, N workers,   *)
(* aggregator, the queues q_in and q_out) and the decision tree of         *)
(* analyzer.py (Analyzer.analyze and the procedures it calls).             *)
(*                                                                         *)
(* Two state machines share this module.  SpecPipeline runs the pool on a  *)
(* bounded input file; in it one call of Analyzer.analyze is one step of a *)
(* worker whose outcome (a verdict or an exception) is chosen freely.      *)
(* SpecAnalyze runs one call of Analyzer.analyze step by step; the         *)
(* external collaborators (OpenLR codec, full-map decoder, overlay         *)
(* decoder, shapely predicates) answer nondeterministically.               *)
(***************************************************************************)
EXTENDS Integers, Sequences, FiniteSets, TLC

(***************************************************************************)
(* Bounds of the model.                                                    *)
(***************************************************************************)
\* workers plus input records of one run of the pool
MaxLoad == 4
\* unit pieces of a decoded LineString
MaxSegs == 2
\* location reference points of a location reference (at least 2)
MaxLrps == 4
\* largest score the decoder gives a candidate on one axis
MaxScore == 1
\* lines of a route the router builds on an overlay
MaxRoute == 3
\* metres of the joined lines of a decoded location, and of each offset
MaxMeters == 4

(***************************************************************************)
(* Values.                                                                 *)
(***************************************************************************)
POISON_PILL_MSG == [type |-> "__DONE__"]

\* OpenLR codes of the input file; Missing marks an absent JSON field.
OLRs == {"a", "b"}
Missing == "MISSING"

\* The loader's view of one element of j["locations"].
\*   geometry: what wkb.loads makes of loc["geometry"]
\*   attrs   : whether loc["category"] and int(loc["frc"]) evaluate
\* (at most one defect per element, and defects only on code "a")
Locations ==
    {l \in [olr : OLRs \cup {Missing},
            geometry : {"linestring", "point", "garbage"},
            attrs : {"ok", Missing}] :
        \/ l.geometry = "linestring" /\ l.attrs = "ok"
        \/ l.geometry # "linestring" /\ l.attrs = "ok" /\ l.olr = "a"
        \/ l.geometry = "linestring" /\ l.attrs = Missing /\ l.olr = "a"}

RECURSIVE SeqsUpTo(_, _)
SeqsUpTo(S, n) ==
    IF n = 0 THEN {<<>>}
    ELSE LET shorter == SeqsUpTo(S, n - 1)
         IN  shorter \cup {Append(s, x) : s \in {t \in shorter : Len(t) = n - 1}, x \in S}

\* members of the AnalysisResult enumeration
AnalysisResult ==
    {"OK", "MISSING_OR_MISCONFIGURED_ROAD", "ALTERNATE_SHORTEST_PATH", "FRC_MISMATCH",
     "FOW_MISMATCH", "BEARING_MISMATCH", "PATH_LENGTH_MISMATCH",
     "UNSUPPORTED_LOCATION_TYPE", "MULTIPLE_ATTRIBUTE_MISMATCHES", "UNKNOWN_ERROR",
     "OUTSIDE_MAP_BOUNDS", "DUPLICATE_OPENLR_CODE", "BETTER_GEOLOCATION_FOUND",
     "BETTER_BEARING_FOUND", "BETTER_FRC_FOUND", "BETTER_FOW_FOUND",
     "BETTER_SCORE_FOUND", "INVALID_GEOMETRY"}

\* Outcomes of dat.analyze(olr, ls) as a worker sees them: a verdict with a
\* fraction in hundredths, or an exception.
AnalyzeOutcomes ==
    {[raised |-> FALSE, res |-> "OK", frac |-> 100],
     [raised |-> FALSE, res |-> "BETTER_FRC_FOUND", frac |-> 50],
     [raised |-> TRUE, res |-> "", frac |-> 0]}

VARIABLES
    \* --- run_parallel_analyzer / load_queue / worker ---
    locations,       \* j["locations"] of the input file
    num_threads,     \* options.num_threads
    pcL,             \* loader: "load", "pills", "done", "crashed"
    nextLoc,         \* loader: index of the next element of locations
    pillsPut,        \* loader: sentinels put so far
    q_in, q_out,     \* the two multiprocessing queues (FIFO)
    pcW,             \* worker i: "unstarted", "get", "have", "done", "crashed"
    msgW,            \* worker i: the message it holds
    error_count,     \* worker i: its error counter
    pcM,             \* main process: "spawn", "recv", "done"
    spawned,         \* main process: workers started so far
    active_workers,
    first, outf, results, count, total_frac,
    \* history of the run (not program state)
    putIn,           \* every message put on q_in, in order
    putOut,          \* every message put on q_out with the worker that put it
    tookOut,         \* every message the aggregator took from q_out, in order
    analyzed         \* per element of locations: who analysed it, and how it ended

pipeVars == <<locations, num_threads, pcL, nextLoc, pillsPut, q_in, q_out, pcW, msgW,
              error_count, pcM, spawned, active_workers, first, outf, results, count,
              total_frac, putIn, putOut, tookOut, analyzed>>

VARIABLES
    \* --- one call of Analyzer.analyze(olr, ls) ---
    apc,             \* the statement analyze (or a procedure it called) is at
    map_bounds,      \* self.map_bounds against ls: "none", "covers", "misses"
    loctype,         \* what binary_decode(olr) returned: "line", "point"
    full,            \* result of the first full-map decode (match_location)
    adjusted,        \* result of the full-map decode of the adjusted reference
    pct,             \* percentage_within_buffer
    overlays,        \* the BufferReaders created, each with the decodes run on it
    stack,           \* the procedures analyze is inside of, innermost last
    calls,           \* every procedure call made so far: [proc, caller]
    casc,            \* the cascade's next decoder configuration
    retv,            \* the verdict being returned by the innermost procedure
    rets,            \* per procedure: the verdict it returned
    branch,          \* the return statement of analyze that is taken
    outcome,         \* how analyze ended: returned (res, frac) or raised
    asserted,        \* the assert statements evaluated so far, with their results
    encoded_loc_ref, \* its points list (as it is now) and its offsets
    adj,             \* adjust_locref: not called, raised, or the reference returned
                     \* (itself: the object returned is the argument)
    observers,       \* per CandidateCollector: the LRPs of the candidates it holds
    awb,             \* arguments of the call of analyze_within_buffer
    cmp              \* compare_locations: its two collectors, the index its walk
                     \* is at, and the arguments it called diagnose_score with

anaVars == <<apc, map_bounds, loctype, full, adjusted, pct, overlays, stack, calls, casc,
             retv, rets, branch, outcome, asserted, encoded_loc_ref, adj, observers, awb, cmp>>

VARIABLES
    \* --- the candidates of the two collectors, when they are given ---
    cpc,             \* "idle" (the decoder's choice, not known), "given"
    outside_pairs,   \* [outside_obs.candidates[i] for i in sorted(...)]
    inside_pairs,    \* [inside_obs.candidates[i] for i in sorted(...)]
    \* --- one call of Analyzer.diagnose_score ---
    dpc,             \* "call", "done"
    reader_config,   \* self.map_reader.config: the four weights
    out_score_collector,
    in_score_collector,
    components,      \* the four weighted deltas, once computed
    diagnosis        \* the verdict diagnose_score returned

cmpVars == <<cpc, outside_pairs, inside_pairs>>
dgnVars == <<dpc, reader_config, out_score_collector, in_score_collector, components, diagnosis>>

VARIABLES
    \* --- one BufferReader (overlay) ---
    opc,             \* "idle", "built", "queried"
    loc_ref,         \* self.loc_ref.points: the coordinates of the LRPs
    lines,           \* self.lines: per line id, the Line's fields
    query            \* the last find_lines_close_to call and what it returned

ovlVars == <<opc, loc_ref, lines, query>>

VARIABLES
    \* --- the road network of one overlay ---
    rows,            \* the rows of the lines table that intersect the buffer
    outgoing,        \* self.outgoing_lines: per node id, the lines leaving it
    incoming,        \* self.incoming_lines: per node id, the lines entering it
    route            \* a route under construction: the ids of its lines

netVars == <<rows, outgoing, incoming, route>>

VARIABLES
    \* --- build_decoded_ls on its own ---
    decode_result,   \* the LineLocation: summed length of its lines and its offsets
    decoded_ls       \* the LineString returned

lsVars == <<decode_result, decoded_ls>>

VARIABLES
    \* --- one ScoreCollector observing make_candidates ---
    score_collector, \* its fields
    reported         \* the observer methods the decoder has called on it

colVars == <<score_collector, reported>>

VARIABLES
    \* --- two calls of analyze on one Analyzer with the same arguments ---
    rpc,               \* "idle", then the statement the running call is at
    olr_code,          \* the olr both calls are given: what it encodes
    analysis_observer, \* self.analysis_observer
    t_loc_ref,         \* the reference the running call got from binary_decode
    buffer_map_reader, \* the BufferReader created last
    frame,             \* locals of the running call
    answers,           \* the map snapshot: what the decoder answered to what
    returned           \* what the calls returned, in order

repVars == <<rpc, olr_code, analysis_observer, t_loc_ref, buffer_map_reader, frame, answers,
             returned>>

\* the variables of the parts a call of analyze does not touch
restVars == <<cmpVars, dgnVars, ovlVars, netVars, lsVars, colVars, repVars>>

vars == <<pipeVars, anaVars, restVars>>

NoMsg == [type |-> "none"]

\* q_in = ctx.Queue(0), q_out = ctx.Queue(0): the maxsize the queues are
\* created with
maxsize == 0

Full_m(q) == Len(q) >= 1

\* Queue.put blocks while the queue holds maxsize items; a maxsize of zero
\* or less asks for a queue without a limit
Full(q) == maxsize > 0 /\ Len(q) >= maxsize

(***************************************************************************)
(* load_queue                                                              *)
(***************************************************************************)
\* The body of the try block for one element: which statement raises first.
LoadTry(loc) ==
    IF loc.geometry = "garbage" THEN "raise"            \* wkb.loads
    ELSE IF loc.geometry # "linestring" THEN "raise"    \* assert isinstance
    ELSE IF loc.olr = Missing THEN "raise"              \* loc["locationReference"]
    ELSE IF loc.attrs = Missing THEN "raise"            \* loc["category"], int(loc["frc"])
    ELSE "put"

\* The except handler formats loc['locationReference'] into the warning: the
\* lookup itself raises KeyError when the field is absent, and nothing
\* catches that.
LoadHandler(loc) == IF loc.olr = Missing THEN "crash" ELSE "skip"

LoadOutcome(loc) == IF LoadTry(loc) = "put" THEN "put" ELSE LoadHandler(loc)

RecMsg(i, loc) == [type |-> "rec", i |-> i, olr |-> loc.olr]

\* One iteration of `for loc in j["locations"]`.
LoadLocation ==
    /\ pcL = "load"
    /\ nextLoc <= Len(locations)
    /\ LET loc == locations[nextLoc]
           out == LoadOutcome(loc)
       IN  /\ out = "put" => ~Full(q_in)
           /\ IF out = "put"
              THEN /\ q_in' = Append(q_in, RecMsg(nextLoc, loc))
                   /\ putIn' = Append(putIn, RecMsg(nextLoc, loc))
              ELSE UNCHANGED <<q_in, putIn>>
           /\ pcL' = IF out = "crash" THEN "crashed" ELSE "load"
           /\ nextLoc' = nextLoc + 1
    /\ UNCHANGED <<locations, num_threads, pillsPut, q_out, pcW, msgW, error_count, pcM,
                   spawned, active_workers, first, outf, results, count, total_frac,
                   putOut, tookOut, analyzed, anaVars, restVars>>

\* The locations loop is exhausted.
LoadEnd ==
    /\ pcL = "load"
    /\ nextLoc > Len(locations)
    /\ pcL' = "pills"
    /\ UNCHANGED <<locations, num_threads, nextLoc, pillsPut, q_in, q_out, pcW, msgW,
                   error_count, pcM, spawned, active_workers, first, outf, results, count,
                   total_frac, putIn, putOut, tookOut, analyzed, anaVars, restVars>>

\* range(int(options.num_threads)): is there another iteration
MorePills_m(put, n) == put <= n
MorePills(put, n) == put < n

\* One iteration of `for _ in range(int(options.num_threads))`.
LoadPill ==
    /\ pcL = "pills"
    /\ IF MorePills(pillsPut, num_threads)
       THEN /\ ~Full(q_in)
            /\ q_in' = Append(q_in, POISON_PILL_MSG)
            /\ putIn' = Append(putIn, POISON_PILL_MSG)
            /\ pillsPut' = pillsPut + 1
            /\ pcL' = pcL
       ELSE /\ pcL' = "done"
            /\ UNCHANGED <<q_in, putIn, pillsPut>>
    /\ UNCHANGED <<locations, num_threads, nextLoc, q_out, pcW, msgW, error_count, pcM,
                   spawned, active_workers, first, outf, results, count, total_frac,
                   putOut, tookOut, analyzed, anaVars, restVars>>

Loader == LoadLocation \/ LoadEnd \/ LoadPill

(***************************************************************************)
(* worker                                                                  *)
(***************************************************************************)
\* The strings the program builds around an OpenLR code: the code itself,
\* f"{olr} : Error-{e}-{id}-{error_count}" and f"{olr} : Duplicate-{count}".
Name(olr) == [olr |-> olr, sfx |-> "", id |-> 0, n |-> 0]
ErrorName(olr, id, n) == [olr |-> olr, sfx |-> "Error", id |-> id, n |-> n]
DuplicateName(name, n) == [olr |-> name.olr, sfx |-> "Duplicate", id |-> name.id, n |-> n]

\* What q_out carries for one record: the tuple (olr, category, frc, res, frac);
\* i is the position of the record in the input (history only).
Verdict(i, name, res, frac) ==
    [type |-> "verdict", i |-> i, olr |-> name, res |-> res, frac |-> frac]

\* def enqueue(olr, category, frc, res, frac): the parameters it requires
EnqueueParams == 5
\* the arguments of the call in the except handler:
\* enqueue(f"{olr} : Error-...", AnalysisResult.UNKNOWN_ERROR, 0.0)
HandlerArgs == 3

\* The except handler of the worker loop.  A call with too few positional
\* arguments raises TypeError before enqueue's body runs; the handler is not
\* itself inside a try, so the exception leaves worker().
\* Result: the messages put on q_out, whether the worker survives, and the
\* new error_count.
WorkerHandler(msg, id, errs) ==
    IF HandlerArgs = EnqueueParams
    THEN [put |-> <<Verdict(msg.i, ErrorName(msg.olr, id, errs), "UNKNOWN_ERROR", 0)>>,
          alive |-> TRUE, errs |-> errs + 1]
    ELSE [put |-> <<>>, alive |-> FALSE, errs |-> errs]

\* The try block of the worker loop for a record and an outcome of analyze.
WorkerBody(msg, out, id, errs) ==
    IF ~out.raised
    THEN [put |-> <<Verdict(msg.i, Name(msg.olr), out.res, out.frac)>>,
          alive |-> TRUE, errs |-> errs]
    ELSE WorkerHandler(msg, id, errs)

Stamp(w, msgs) == [k \in 1..Len(msgs) |-> [by |-> w, msg |-> msgs[k]]]

\* msg = q_in.get(): blocks while q_in is empty
WorkerGet(w) ==
    /\ w \in 1..num_threads
    /\ pcW[w] = "get"
    /\ q_in # <<>>
    /\ msgW' = [msgW EXCEPT ![w] = Head(q_in)]
    /\ q_in' = Tail(q_in)
    /\ pcW' = [pcW EXCEPT ![w] = "have"]
    /\ UNCHANGED <<locations, num_threads, pcL, nextLoc, pillsPut, q_out, error_count,
                   pcM, spawned, active_workers, first, outf, results, count,
                   total_frac, putIn, putOut, tookOut, analyzed, anaVars, restVars>>

\* One iteration of `while msg != POISON_PILL_MSG` up to the next get.
WorkerAnalyze(w) ==
    /\ w \in 1..num_threads
    /\ pcW[w] = "have"
    /\ msgW[w] # POISON_PILL_MSG
    /\ \E out \in AnalyzeOutcomes :
         LET r == WorkerBody(msgW[w], out, w - 1, error_count[w])
         IN  /\ r.put # <<>> => ~Full(q_out)
             /\ q_out' = q_out \o r.put
             /\ putOut' = putOut \o Stamp(w, r.put)
             /\ error_count' = [error_count EXCEPT ![w] = r.errs]
             /\ pcW' = [pcW EXCEPT ![w] = IF r.alive THEN "get" ELSE "crashed"]
             /\ analyzed' = [analyzed EXCEPT ![msgW[w].i] =
                               [by |-> w, raised |-> out.raised]]
    /\ msgW' = [msgW EXCEPT ![w] = NoMsg]
    /\ UNCHANGED <<locations, num_threads, pcL, nextLoc, pillsPut, q_in, pcM, spawned,
                   active_workers, first, outf, results, count, total_frac, putIn,
                   tookOut, anaVars, restVars>>

\* The loop ended on a sentinel: q_out.put(msg), and the worker returns.
WorkerForward(w) ==
    /\ w \in 1..num_threads
    /\ pcW[w] = "have"
    /\ msgW[w] = POISON_PILL_MSG
    /\ ~Full(q_out)
    /\ q_out' = Append(q_out, msgW[w])
    /\ putOut' = putOut \o Stamp(w, <<msgW[w]>>)
    /\ pcW' = [pcW EXCEPT ![w] = "done"]
    /\ UNCHANGED <<locations, num_threads, pcL, nextLoc, pillsPut, q_in, msgW,
                   error_count, pcM, spawned, active_workers, first, outf, results,
                   count, total_frac, putIn, tookOut, analyzed, anaVars, restVars>>

Worker(w) == WorkerGet(w) \/ WorkerAnalyze(w) \/ WorkerForward(w)

(***************************************************************************)
(* run_parallel_analyzer: spawning the workers, then the aggregator loop   *)
(***************************************************************************)
\* One iteration of the spawn loop, or the code between it and the receive
\* loop (the output file is opened and its header written).
Spawn ==
    /\ pcM = "spawn"
    /\ IF spawned < num_threads
       THEN /\ pcW' = [pcW EXCEPT ![spawned + 1] = "get"]
            /\ spawned' = spawned + 1
            /\ active_workers' = active_workers + 1
            /\ UNCHANGED <<pcM, outf>>
       ELSE /\ pcM' = "recv"
            /\ outf' = Append(outf, [text |-> "header", comma |-> FALSE, rec |-> NoMsg])
            /\ UNCHANGED <<pcW, spawned, active_workers>>
    /\ UNCHANGED <<locations, num_threads, pcL, nextLoc, pillsPut, q_in, q_out, msgW,
                   error_count, first, results, count, total_frac, putIn, putOut,
                   tookOut, analyzed, anaVars, restVars>>

\* the test of `while active_workers > 0`
KeepReceiving_m(active) == active > 1
KeepReceiving(active) == active > 0

Separator_m(is_first) == ","

\* f"{'' if first else ','}": what is written before a record
Separator(is_first) == IF is_first THEN "" ELSE ","

IsDuplicate_m(buckets, msg) ==
    <<msg.olr, msg.frac>> \in buckets["DUPLICATE_OPENLR_CODE"]

\* `if (olr, frac) in results[res]:`
IsDuplicate(buckets, msg) == <<msg.olr, msg.frac>> \in buckets[msg.res]

\* One iteration of the receive loop: msg = q_out.get() and its handling.
AggRecv ==
    /\ pcM = "recv"
    /\ KeepReceiving(active_workers)
    /\ q_out # <<>>
    /\ LET msg == Head(q_out)
       IN  /\ q_out' = Tail(q_out)
           /\ tookOut' = Append(tookOut, msg)
           /\ IF msg = POISON_PILL_MSG
              THEN /\ active_workers' = active_workers - 1
                   /\ UNCHANGED <<first, outf, results, count, total_frac>>
              ELSE /\ outf' = Append(outf, [text |-> "rec",
                                            comma |-> Separator(first) = ",",
                                            rec |-> msg])
                   /\ first' = FALSE
                   /\ IF IsDuplicate(results, msg)
                      THEN /\ results' =
                                [results EXCEPT !["DUPLICATE_OPENLR_CODE"] =
                                    @ \cup {<<DuplicateName(msg.olr, count), 0>>}]
                           /\ UNCHANGED <<count, total_frac>>
                      ELSE /\ results' = [results EXCEPT ![msg.res] =
                                              @ \cup {<<msg.olr, msg.frac>>}]
                           /\ total_frac' = total_frac + msg.frac
                           /\ count' = count + 1
                   /\ UNCHANGED active_workers
    /\ UNCHANGED <<locations, num_threads, pcL, nextLoc, pillsPut, q_in, pcW, msgW,
                   error_count, pcM, spawned, putIn, putOut, analyzed, anaVars, restVars>>

\* The receive loop ends: the closing "]}" is written.
AggExit ==
    /\ pcM = "recv"
    /\ ~KeepReceiving(active_workers)
    /\ outf' = Append(outf, [text |-> "footer", comma |-> FALSE, rec |-> NoMsg])
    /\ pcM' = "done"
    /\ UNCHANGED <<locations, num_threads, pcL, nextLoc, pillsPut, q_in, q_out, pcW,
                   msgW, error_count, spawned, active_workers, first, results, count,
                   total_frac, putIn, putOut, tookOut, analyzed, anaVars, restVars>>

Main == Spawn \/ AggRecv \/ AggExit

(***************************************************************************)
(* Analyzer: values                                                        *)
(***************************************************************************)
None == "none"

\* Fractions are exact rationals num/den.
One == [num |-> 1, den |-> 1]
Zero == [num |-> 0, den |-> 1]
NoFrac == [num |-> 0, den |-> 0]

\* A decoded LineString against the buffer polygon: its length in unit
\* pieces and the length of its part inside the buffer.  A degenerate line
\* (two equal coordinates) has length 0 and pt says whether its point is
\* inside the buffer.
Geometries ==
    {[len |-> l, inside |-> i, pt |-> p] : l \in 0..MaxSegs, i \in 0..MaxSegs, p \in BOOLEAN}
        \ {g \in [len : 0..MaxSegs, inside : 0..MaxSegs, pt : BOOLEAN] : g.inside > g.len}

Length(ls) == ls.len
InsideLength(ls) == ls.inside
\* buffered_ls.covers(ls)
Covers(ls) == IF Length(ls) = 0 THEN ls.pt ELSE InsideLength(ls) = Length(ls)

\* What match_location can return: (None, None, observer), or a LineLocation
\* with its offsets and the LineString build_decoded_ls made of it.  Only
\* offsets can collapse the line to a point.
NoLoc == [ok |-> FALSE, p_off |-> 0, n_off |-> 0, ls |-> [len |-> 0, inside |-> 0, pt |-> FALSE]]
MatchResults ==
    {NoLoc} \cup
    {m \in [ok : {TRUE}, p_off : 0..1, n_off : 0..1, ls : Geometries] :
        /\ Length(m.ls) = 0 => (m.p_off > 0 \/ m.n_off > 0)
        /\ Length(m.ls) > 0 => m.ls.pt}

\* the decoder configurations the overlay is decoded with
Configs == {"StrictConfig", "AnyPath", "IgnoreFRC", "IgnoreFOW", "IgnorePathLength",
            "IgnoreBearing"}

Procs == {"adjust_locref_and_match", "analyze_within_buffer", "compare_locations",
          "determine_restricted_decoding_failure_cause"}

\* the verdicts compare_locations can return (its own and diagnose_score's)
CompareVerdicts ==
    {"ALTERNATE_SHORTEST_PATH", "BETTER_FRC_FOUND", "BETTER_BEARING_FOUND",
     "BETTER_SCORE_FOUND", "BETTER_GEOLOCATION_FOUND", "BETTER_FOW_FOUND"}

DiagnoseResults_m ==
    {"BETTER_FRC_FOUND", "BETTER_BEARING_FOUND", "BETTER_SCORE_FOUND",
     "BETTER_GEOLOCATION_FOUND", "BETTER_FOW_FOUND", None}

\* the verdicts diagnose_score can return (its return statements)
DiagnoseResults ==
    {"BETTER_FRC_FOUND", "BETTER_BEARING_FOUND", "BETTER_SCORE_FOUND",
     "BETTER_GEOLOCATION_FOUND", "BETTER_FOW_FOUND"}

\* A LocationReferencePoint: lon stands for the pair (lon, lat), attrs for
\* (frc, fow, lfrcnp).  The k-th LRP of a binary-decoded reference lies at
\* coordinate k; coordinate 0 is a point of the decoded geometry no LRP has.
LocationReferencePoint(lon, bear, dnp, attrs) ==
    [lon |-> lon, bear |-> bear, dnp |-> dnp, attrs |-> attrs]

\* binary_decode(olr).points for a line location of n LRPs
DecodedPoints(n) == [k \in 1..n |-> LocationReferencePoint(k, 0, 0, k)]

NoRef == [points |-> <<>>, poffs |-> 0, noffs |-> 0]

\* the three CandidateCollectors of one analysis
ObserverNames == {"decoder_observer", "adj_decoder_observer", "buffer_observer"}

\* CandidateCollector.candidates after a decode of a reference with the
\* LRPs lrps that chose the lines ls: one (lrp, candidate) per LRP, by
\* position, filled in only when the decode reached the location's end.
Candidates(lrps, ls) == [i \in DOMAIN lrps |-> [lrp |-> lrps[i], line |-> ls[i]]]

\* lines of the target map a candidate can lie on: line_id, and the ids of
\* its start_node and end_node
MapLines ==
    {[line_id |-> "x", start_node |-> 1, end_node |-> 2],
     [line_id |-> "y", start_node |-> 2, end_node |-> 3]}

(***************************************************************************)
(* Analyzer.adjust_locref                                                  *)
(***************************************************************************)
\* What geoutils computes from the decoded LineString, as far as it shows:
\* whether the values computed for the first LRP (coordinate of the start of
\* the line, bearing, distance), for the penultimate LRP (distance) and for
\* the last LRP (coordinate of the end of the line, bearing) differ from
\* the values the LRP has.
GeoResults == [first : BOOLEAN, pen : BOOLEAN, last : BOOLEAN]

\* a computed value: different from the stored value v or equal to it
Computed(differs, v, new) == IF differs THEN new ELSE v

NothingToDo_m(locref) == locref.poffs # 0 /\ locref.noffs # 0

\* `if locref.poffs == 0.0 and locref.noffs == 0.0:` return locref
NothingToDo(locref) == locref.poffs = 0 /\ locref.noffs = 0

\* `if locref.poffs > 0.0:` ... lrps[0] = LocationReferencePoint(...)
AdjustFirst(lrps, g) ==
    [lrps EXCEPT ![1] =
        LocationReferencePoint(Computed(g.first, @.lon, 0), Computed(g.first, @.bear, @.bear + 1),
                               Computed(g.first, @.dnp, @.dnp + 1), @.attrs)]

AdjustLast_m(lrps, g) ==
    LET n == Len(lrps)
        pen == [lrps EXCEPT ![n - 1] =
                   LocationReferencePoint(@.lon, Computed(g.pen, @.bear, @.bear + 1),
                                          Computed(g.pen, @.dnp, @.dnp + 1), @.attrs)]
    IN  [pen EXCEPT ![n] =
            LocationReferencePoint(Computed(g.last, @.lon, 0),
                                   Computed(g.last, @.bear, @.bear + 1), @.dnp, @.attrs)]

\* `if locref.noffs > 0.0:` ... lrps[-2] = ..., lrps[-1] = ...
AdjustLast(lrps, g) ==
    LET n == Len(lrps)
        pen == [lrps EXCEPT ![n - 1] =
                   LocationReferencePoint(@.lon, @.bear, Computed(g.pen, @.dnp, @.dnp + 1),
                                          @.attrs)]
    IN  [pen EXCEPT ![n] =
            LocationReferencePoint(Computed(g.last, @.lon, 0),
                                   Computed(g.last, @.bear, @.bear + 1), @.dnp, @.attrs)]

\* adjust_locref(locref, ls).  lrps is locref.points itself, so the
\* assignments change the caller's list; err names the block in which
\* geoutils raises GeodError ("none": it does not).  The result gives the
\* list as the call leaves it and the offsets of the reference returned.
adjust_locref(locref, g, err) ==
    IF NothingToDo(locref)
    THEN [raised |-> FALSE, itself |-> TRUE, points |-> locref.points,
          poffs |-> locref.poffs, noffs |-> locref.noffs]
    ELSE IF locref.poffs > 0 /\ err = "poffs"
    THEN [raised |-> TRUE, itself |-> FALSE, points |-> locref.points,
          poffs |-> 0, noffs |-> 0]
    ELSE LET first_done == IF locref.poffs > 0 THEN AdjustFirst(locref.points, g)
                           ELSE locref.points
         IN  IF locref.noffs > 0 /\ err = "noffs"
             THEN [raised |-> TRUE, itself |-> FALSE, points |-> first_done,
                   poffs |-> 0, noffs |-> 0]
             ELSE [raised |-> FALSE, itself |-> FALSE,
                   points |-> IF locref.noffs > 0 THEN AdjustLast(first_done, g)
                              ELSE first_done,
                   poffs |-> 0, noffs |-> 0]

(***************************************************************************)
(* Analyzer.determine_restricted_decoding_failure_cause                    *)
(***************************************************************************)
\* One `if buffer_map_reader.match(config=...)` of the cascade: given the
\* configuration just decoded with and whether the decode succeeded, the
\* verdict returned (ret) or the configuration decoded with next.
CascadeStep_m6(config, ok) ==
    CASE config = "AnyPath" ->
           IF ~ok THEN [ret |-> "MISSING_OR_MISCONFIGURED_ROAD", next |-> None]
           ELSE [ret |-> None, next |-> "IgnoreFOW"]
      [] config = "IgnoreFOW" ->
           IF ok THEN [ret |-> "FOW_MISMATCH", next |-> None]
           ELSE [ret |-> None, next |-> "IgnoreFRC"]
      [] config = "IgnoreFRC" ->
           IF ok THEN [ret |-> "FRC_MISMATCH", next |-> None]
           ELSE [ret |-> None, next |-> "IgnorePathLength"]
      [] config = "IgnorePathLength" ->
           IF ok THEN [ret |-> "PATH_LENGTH_MISMATCH", next |-> None]
           ELSE [ret |-> None, next |-> "IgnoreBearing"]
      [] config = "IgnoreBearing" ->
           IF ok THEN [ret |-> "BEARING_MISMATCH", next |-> None]
           ELSE [ret |-> "MULTIPLE_ATTRIBUTE_MISMATCHES", next |-> None]

CascadeStep_m7(config, ok) ==
    CASE config = "AnyPath" -> [ret |-> None, next |-> "IgnoreFRC"]
      [] config = "IgnoreFRC" ->
           IF ok THEN [ret |-> "FRC_MISMATCH", next |-> None]
           ELSE [ret |-> None, next |-> "IgnoreFOW"]
      [] config = "IgnoreFOW" ->
           IF ok THEN [ret |-> "FOW_MISMATCH", next |-> None]
           ELSE [ret |-> None, next |-> "IgnorePathLength"]
      [] config = "IgnorePathLength" ->
           IF ok THEN [ret |-> "PATH_LENGTH_MISMATCH", next |-> None]
           ELSE [ret |-> None, next |-> "IgnoreBearing"]
      [] config = "IgnoreBearing" ->
           IF ok THEN [ret |-> "BEARING_MISMATCH", next |-> None]
           ELSE [ret |-> "MULTIPLE_ATTRIBUTE_MISMATCHES", next |-> None]

CascadeStep(config, ok) ==
    CASE config = "AnyPath" ->
           IF ~ok THEN [ret |-> "MISSING_OR_MISCONFIGURED_ROAD", next |-> None]
           ELSE [ret |-> None, next |-> "IgnoreFRC"]
      [] config = "IgnoreFRC" ->
           IF ok THEN [ret |-> "FRC_MISMATCH", next |-> None]
           ELSE [ret |-> None, next |-> "IgnoreFOW"]
      [] config = "IgnoreFOW" ->
           IF ok THEN [ret |-> "FOW_MISMATCH", next |-> None]
           ELSE [ret |-> None, next |-> "IgnorePathLength"]
      [] config = "IgnorePathLength" ->
           IF ok THEN [ret |-> "PATH_LENGTH_MISMATCH", next |-> None]
           ELSE [ret |-> None, next |-> "IgnoreBearing"]
      [] config = "IgnoreBearing" ->
           IF ok THEN [ret |-> "BEARING_MISMATCH", next |-> None]
           ELSE [ret |-> "MULTIPLE_ATTRIBUTE_MISMATCHES", next |-> None]

create_buffer_reader_m(ref) ==
    IF rpc # "idle" /\ buffer_map_reader.decodes # <<>> THEN buffer_map_reader
    ELSE [loc_ref |-> ref, buffer |-> "buffered_ls", decodes |-> <<>>]

\* BufferReader(buffer=buffered_ls, loc_ref=ref, ...): a new overlay, no
\* decode run on it yet
create_buffer_reader(ref) == [loc_ref |-> ref, buffer |-> "buffered_ls", decodes |-> <<>>]

\* How decode(reference, reader, observer, config, geo_tool) ends inside
\* BufferReader.match: it returns a location, or it raises (LRDecodeError
\* when nothing matches, or any other exception).
DecodeOutcomes == {"location", "raised"}

\* BufferReader.match(config, observer): whether its result is a location;
\* `except Exception` turns every exception into None
match_m(d) == d \in DecodeOutcomes
match(d) == d = "location"

\* buffer_map_reader.match(config=...) on the newest overlay: the decode is
\* recorded with how it ended and with the result of match (None is ~ok)
WithDecode(ovs, config, d) ==
    [ovs EXCEPT ![Len(ovs)].decodes =
        Append(@, [config |-> config, ok |-> match(d), ended |-> d])]

Call(proc, caller) == [proc |-> proc, caller |-> caller]

\* One decode of the cascade and the `if` that tests it.
Cascade ==
    /\ apc = "cascade"
    /\ \E d \in DecodeOutcomes :
         LET r == CascadeStep(casc, match(d))
         IN  /\ overlays' = WithDecode(overlays, casc, d)
             /\ casc' = r.next
             /\ retv' = r.ret
             /\ apc' = IF r.ret = None THEN "cascade" ELSE "return"
    /\ UNCHANGED <<map_bounds, loctype, full, adjusted, pct, stack, calls, rets, branch,
                   outcome, asserted, encoded_loc_ref, adj, observers, awb, cmp,
                   pipeVars, restVars>>

(***************************************************************************)
(* Analyzer.compare_locations (with diagnose_score)                        *)
(***************************************************************************)
\* one evaluated `assert` of compare_locations: its source line, the LRP
\* index it was evaluated for, and whether it held
Evaluated(line, index, ok) ==
    [proc |-> "compare_locations", line |-> line, index |-> index, ok |-> ok]

\* `outside.line.line_id != inside.line.line_id`
LinesDiffer(o, i) == o.line.line_id # i.line.line_id

\* the test made for the first LRP
FirstDiverges_m(o, i) == LinesDiffer(o, i) /\ o.line.start_node # i.line.end_node
FirstDiverges(o, i) == LinesDiffer(o, i) /\ o.line.end_node # i.line.start_node
\* the test made for the last LRP
LastDiverges(o, i) == LinesDiffer(o, i) /\ o.line.start_node # i.line.end_node

\* outside_pairs[k - 1] and inside_pairs[k - 1]: the LRP the collector
\* recorded at that position, and the line of its candidate, which is the
\* given one or any line the decoder may have chosen
OutsideAt(k) ==
    {[lrp |-> observers[cmp.outside_obs][k], line |-> l] :
        l \in IF cpc = "given" THEN {outside_pairs[k].line} ELSE MapLines}
InsideAt(k) ==
    {[lrp |-> observers[cmp.inside_obs][k], line |-> l] :
        l \in IF cpc = "given" THEN {inside_pairs[k].line} ELSE MapLines}

\* the arguments of a call of diagnose_score
DiagnoseArgs(index, lrp, outside, inside, is_last) ==
    [index |-> index, lrp |-> lrp, outside |-> outside, inside |-> inside,
     is_last |-> is_last]
NotDiagnosed == DiagnoseArgs(-1, None, None, None, FALSE)

\* `return self.diagnose_score(lrp=..., outside=..., inside=..., is_last=...)`:
\* diagnose_score returns through one of its return statements
ReturnDiagnosis(index, o, i, is_last) ==
    /\ cmp' = [cmp EXCEPT !.diagnosed = DiagnoseArgs(index, o.lrp, o.line, i.line, is_last)]
    /\ \E v \in DiagnoseResults : retv' = v
    /\ apc' = "return"
    /\ UNCHANGED outcome

\* an assert failed: AssertionError leaves analyze
RaiseAssertionError ==
    /\ outcome' = [status |-> "raised", res |-> "AssertionError", frac |-> NoFrac]
    /\ apc' = "end"
    /\ UNCHANGED <<retv, cmp>>

\* The first assert and the test of the first LRP.
CompareFirst ==
    /\ apc = "compare_locations"
    /\ LET same_len == Len(observers[cmp.outside_obs]) = Len(observers[cmp.inside_obs])
       IN  /\ asserted' = asserted \cup {Evaluated(593, 0, same_len)}
           /\ IF ~same_len
              THEN RaiseAssertionError
              ELSE \E o \in OutsideAt(1), i \in InsideAt(1) :
                     IF FirstDiverges(o, i)
                     THEN ReturnDiagnosis(0, o, i, FALSE)
                     ELSE /\ cmp' = [cmp EXCEPT !.index = 1]
                          /\ apc' = "compare_loop"
                          /\ UNCHANGED <<retv, outcome>>
    /\ UNCHANGED <<map_bounds, loctype, full, adjusted, pct, overlays, stack, calls, casc,
                   rets, branch, encoded_loc_ref, adj, observers, awb, pipeVars,
                   restVars>>

\* One iteration of `for index, (outside, inside) in enumerate(zip(
\* outside_pairs[1:-1], inside_pairs[1:-1]), 1)`.
CompareIntermediate ==
    /\ apc = "compare_loop"
    /\ cmp.index <= Len(observers[cmp.outside_obs]) - 2
    /\ \E o \in OutsideAt(cmp.index + 1), i \in InsideAt(cmp.index + 1) :
         /\ asserted' = asserted \cup {Evaluated(622, cmp.index, o.lrp = i.lrp)}
         /\ IF o.lrp # i.lrp
            THEN RaiseAssertionError
            ELSE IF LinesDiffer(o, i)
            THEN ReturnDiagnosis(cmp.index, o, i, FALSE)
            ELSE /\ cmp' = [cmp EXCEPT !.index = @ + 1]
                 /\ UNCHANGED <<apc, retv, outcome>>
    /\ UNCHANGED <<map_bounds, loctype, full, adjusted, pct, overlays, stack, calls, casc,
                   rets, branch, encoded_loc_ref, adj, observers, awb, pipeVars,
                   restVars>>

\* After the loop: the test of the last LRP, and the verdict when no LRP
\* was placed differently.
CompareLast ==
    /\ apc = "compare_loop"
    /\ cmp.index > Len(observers[cmp.outside_obs]) - 2
    /\ LET n == Len(observers[cmp.outside_obs])
       IN  \E o \in OutsideAt(n), i \in InsideAt(n) :
             IF LastDiverges(o, i)
             THEN ReturnDiagnosis(n - 1, o, i, TRUE)
             ELSE /\ retv' = "ALTERNATE_SHORTEST_PATH"
                  /\ apc' = "return"
                  /\ UNCHANGED <<cmp, outcome>>
    /\ UNCHANGED <<map_bounds, loctype, full, adjusted, pct, overlays, stack, calls, casc,
                   rets, branch, asserted, encoded_loc_ref, adj, observers, awb, pipeVars,
                   restVars>>

CompareLocations == CompareFirst \/ CompareIntermediate \/ CompareLast

(***************************************************************************)
(* Analyzer.diagnose_score                                                 *)
(***************************************************************************)
\* the weights self.map_reader.config gives the four axes: all equal, or
\* one axis weighted double
Weightings ==
    {c \in [geo_weight : 1..2, bear_weight : 1..2, frc_weight : 1..2, fow_weight : 1..2] :
        c.geo_weight + c.bear_weight + c.frc_weight + c.fow_weight <= 5}

\* A ScoreCollector after make_candidates ran with it as observer: the
\* scores of the last scoring event (those of a new collector if there was
\* none) and the rejection flags.
ScoreCollectors ==
    [geo_score : 0..MaxScore, bearing_score : 0..MaxScore, frc_score : 0..MaxScore,
     fow_score : 0..MaxScore, frc_reject : BOOLEAN, bearing_reject : BOOLEAN,
     score_reject : BOOLEAN]

\* the three `if in_score_collector.<flag>: return ...`
RejectVerdict_m(c) ==
    IF c.bearing_reject THEN "BETTER_BEARING_FOUND"
    ELSE IF c.frc_reject THEN "BETTER_FRC_FOUND"
    ELSE IF c.score_reject THEN "BETTER_SCORE_FOUND"
    ELSE None
RejectVerdict(c) ==
    IF c.frc_reject THEN "BETTER_FRC_FOUND"
    ELSE IF c.bearing_reject THEN "BETTER_BEARING_FOUND"
    ELSE IF c.score_reject THEN "BETTER_SCORE_FOUND"
    ELSE None

\* components[0..3]
Components_m(config, out, in) ==
    <<out.geo_score - in.geo_score,
      out.bearing_score - in.bearing_score,
      out.frc_score - in.frc_score,
      out.fow_score - in.fow_score>>
Components(config, out, in) ==
    <<config.geo_weight * (out.geo_score - in.geo_score),
      config.bear_weight * (out.bearing_score - in.bearing_score),
      config.frc_weight * (out.frc_score - in.frc_score),
      config.fow_weight * (out.fow_score - in.fow_score)>>

\* max(components)
Max(c) == CHOOSE m \in {c[k] : k \in DOMAIN c} : \A k \in DOMAIN c : c[k] <= m

\* components.index(max(components)), counted from 1: list.index gives the
\* first position holding the value
IndexOfMax_m(c) ==
    CHOOSE k \in DOMAIN c : c[k] = Max(c) /\ \A j \in DOMAIN c : c[j] = Max(c) => j <= k
IndexOfMax(c) ==
    CHOOSE k \in DOMAIN c : c[k] = Max(c) /\ \A j \in 1..(k - 1) : c[j] # Max(c)

\* the `case` of the match statement
AxisVerdict(k) ==
    CASE k = 1 -> "BETTER_GEOLOCATION_FOUND"
      [] k = 2 -> "BETTER_BEARING_FOUND"
      [] k = 3 -> "BETTER_FRC_FOUND"
      [] k = 4 -> "BETTER_FOW_FOUND"

\* The tests of the inside collector's rejection flags.
DiagnoseFlags ==
    /\ dpc = "flags"
    /\ IF RejectVerdict(in_score_collector) # None
       THEN /\ diagnosis' = RejectVerdict(in_score_collector)
            /\ dpc' = "done"
       ELSE /\ dpc' = "components"
            /\ UNCHANGED diagnosis
    /\ UNCHANGED <<reader_config, out_score_collector, in_score_collector, components,
                   pipeVars, anaVars, cmpVars, ovlVars, netVars, lsVars,
                   colVars,
                   repVars>>

\* The four weighted deltas and the match on the position of their maximum.
DiagnoseComponents ==
    /\ dpc = "components"
    /\ components' = Components(reader_config, out_score_collector, in_score_collector)
    /\ diagnosis' = AxisVerdict(IndexOfMax(components'))
    /\ dpc' = "done"
    /\ UNCHANGED <<reader_config, out_score_collector, in_score_collector,
                   pipeVars, anaVars, cmpVars, ovlVars, netVars, lsVars,
                   colVars,
                   repVars>>

(***************************************************************************)
(* BufferReader.find_lines_close_to                                        *)
(***************************************************************************)
\* openlr Coordinates (lon, lat) on a small grid
Coordinates == [lon : 0..1, lat : 0..1]

\* ids of the lines of the overlay, and the point of each line's geometry
\* that distances are measured to
LineIds == {"x", "y"}
LineAt == [x |-> [lon |-> 0, lat |-> 0], y |-> [lon |-> 1, lat |-> 0]]

\* Line.__init__: contained_in_buffer = buffer.contains(geometry),
\* entry_or_exit = False
Line(line_id, contained) ==
    [at |-> LineAt[line_id], contained_in_buffer |-> contained, entry_or_exit |-> FALSE]

\* the search radii the decoder queries with
Dists == {1, 2}

Abs(v) == IF v < 0 THEN 0 - v ELSE v
\* Line.distance_to(coord)
distance_to(line, coord) == Abs(line.at.lon - coord.lon) + Abs(line.at.lat - coord.lat)

\* the test of find_lines_close_to: coord has the longitude and latitude of
\* self.loc_ref.points[0] or of self.loc_ref.points[-1]
IsFirstOrLast_m(points, coord) ==
    points[1].lon = coord.lon /\ points[1].lat = coord.lat
IsFirstOrLast(points, coord) ==
    \/ points[1].lon = coord.lon /\ points[1].lat = coord.lat
    \/ points[Len(points)].lon = coord.lon /\ points[Len(points)].lat = coord.lat

\* find_lines_close_to(coord, dist) on the lines ls of an overlay whose
\* reference has the LRP coordinates points: the ids of the lines returned,
\* and the lines as the call leaves them
find_lines_close_to(points, ls, coord, dist) ==
    IF IsFirstOrLast(points, coord)
    THEN LET candidates == {l \in DOMAIN ls : distance_to(ls[l], coord) < dist}
         IN  [candidates |-> candidates,
              lines |-> [l \in DOMAIN ls |->
                           IF l \in candidates /\ ~ls[l].contained_in_buffer
                           THEN [ls[l] EXCEPT !.entry_or_exit = TRUE]
                           ELSE ls[l]]]
    ELSE [candidates |-> {l \in DOMAIN ls : /\ ls[l].contained_in_buffer
                                            /\ distance_to(ls[l], coord) < dist},
          lines |-> ls]

\* The decoder asks for the candidate lines of the LRP at position index.
FindLinesCloseTo ==
    /\ opc \in {"built", "queried"}
    /\ \E index \in DOMAIN loc_ref, dist \in Dists :
         LET r == find_lines_close_to(loc_ref, lines, loc_ref[index], dist)
         IN  /\ lines' = r.lines
             /\ query' = [index |-> index, coord |-> loc_ref[index], dist |-> dist,
                          returned |-> r.candidates,
                          before |-> [l \in DOMAIN lines |-> lines[l].entry_or_exit]]
    /\ opc' = "queried"
    /\ UNCHANGED <<loc_ref, pipeVars, anaVars, cmpVars, dgnVars, netVars, lsVars,
                   colVars,
                   repVars>>

(***************************************************************************)
(* BufferReader.create_lines, init_objects; Node.outgoing_lines            *)
(***************************************************************************)
\* A line id is a string, written here as the sequence of its characters:
\* <<"x">> is "x", <<"-", "x">> is "-x".
RowIds == {"x", "y"}
NodeIds == {1, 2}
NoLine == <<>>
\* "-" + line_id
Minus(line_id) == <<"-">> \o line_id

\* fow, frc and length of a row
RowAttrs ==
    [x |-> [fow |-> 1, frc |-> 2, length |-> 3],
     y |-> [fow |-> 4, frc |-> 5, length |-> 6]]

\* What the query of find_all_candidate_lines can fetch: per row its
\* direction (1: both ways), its start and end node, and whether the
\* buffer contains its geometry.
Rows ==
    [RowIds -> [direction : {1, 2}, start_id : NodeIds, end_id : NodeIds,
                within : BOOLEAN]]

\* coordinates of a node, and the geometry of a row from start to end
NodeAt(n) == [lon |-> n - 1, lat |-> 0]
Geometry(r) == <<NodeAt(r.start_id), NodeAt(r.end_id)>>
\* LineString.reverse()
Reverse(ls) == [k \in DOMAIN ls |-> ls[Len(ls) + 1 - k]]

\* Line(map_reader, line_id, from_int, to_int, fow, frc, length, geometry,
\* buffer); contained_in_buffer = buffer.contains(geometry)
NewLine(line_id, from_int, to_int, attrs, geometry, at, within) ==
    [id |-> line_id, from_int |-> from_int, to_int |-> to_int, fow |-> attrs.fow,
     frc |-> attrs.frc, length |-> attrs.length, geometry |-> geometry, at |-> at,
     contained_in_buffer |-> within, entry_or_exit |-> FALSE]

\* create_lines(rows): self.lines after the loop
create_lines_m(rws) ==
    LET ids == {<<r>> : r \in DOMAIN rws} \cup
               {Minus(<<r>>) : r \in {q \in DOMAIN rws : rws[q].direction = 1}}
    IN  [line_id \in ids |->
           LET r == line_id[Len(line_id)]
           IN  IF Len(line_id) = 1
               THEN NewLine(line_id, rws[r].start_id, rws[r].end_id, RowAttrs[r],
                            Geometry(rws[r]), NodeAt(rws[r].start_id), rws[r].within)
               ELSE NewLine(line_id, rws[r].start_id, rws[r].end_id, RowAttrs[r],
                            Reverse(Geometry(rws[r])), NodeAt(rws[r].start_id),
                            rws[r].within)]
create_lines(rws) ==
    LET ids == {<<r>> : r \in DOMAIN rws} \cup
               {Minus(<<r>>) : r \in {q \in DOMAIN rws : rws[q].direction = 1}}
    IN  [line_id \in ids |->
           LET r == line_id[Len(line_id)]
           IN  IF Len(line_id) = 1
               THEN NewLine(line_id, rws[r].start_id, rws[r].end_id, RowAttrs[r],
                            Geometry(rws[r]), NodeAt(rws[r].start_id), rws[r].within)
               ELSE NewLine(line_id, rws[r].end_id, rws[r].start_id, RowAttrs[r],
                            Reverse(Geometry(rws[r])), NodeAt(rws[r].start_id),
                            rws[r].within)]

\* init_objects: update_node_outgoing and update_node_incoming for every
\* line; a node without such a line has no entry
OutgoingIndex(ls) ==
    [n \in {ls[l].from_int : l \in DOMAIN ls} |-> {l \in DOMAIN ls : ls[l].from_int = n}]
IncomingIndex(ls) ==
    [n \in {ls[l].to_int : l \in DOMAIN ls} |-> {l \in DOMAIN ls : ls[l].to_int = n}]

\* The constructor's init_objects().
InitObjects ==
    /\ opc = "rows"
    /\ lines' = create_lines(rows)
    /\ outgoing' = OutgoingIndex(lines')
    /\ incoming' = IncomingIndex(lines')
    /\ opc' = "built"
    /\ UNCHANGED <<loc_ref, query, rows, route, pipeVars, anaVars, cmpVars, dgnVars,
                   lsVars,
                   colVars,
                   repVars>>

\* are_peers(candidate, source), on the ids of the two lines; NoLine is
\* source None
are_peers_m(candidate, source) ==
    IF source = NoLine THEN FALSE
    ELSE candidate = Minus(source)
are_peers(candidate, source) ==
    IF source = NoLine THEN FALSE
    ELSE candidate = Minus(source) \/ source = Minus(candidate)

\* `line.contained_in_buffer or line.entry_or_exit`
Usable(line) == line.contained_in_buffer \/ line.entry_or_exit

\* Node.outgoing_lines(source) and Node.incoming_lines(source) of the node
\* with id node
outgoing_lines(node, source) ==
    IF node \in DOMAIN outgoing
    THEN {l \in outgoing[node] : Usable(lines[l]) /\ ~are_peers(l, source)}
    ELSE {}
incoming_lines(node, source) ==
    IF node \in DOMAIN incoming
    THEN {l \in incoming[node] : Usable(lines[l]) /\ ~are_peers(l, source)}
    ELSE {}

\* The decoder starts a route on a candidate line of the first LRP.
StartRoute ==
    /\ opc = "queried"
    /\ route = <<>>
    /\ query.index = 1
    /\ \E l \in query.returned : route' = <<l>>
    /\ UNCHANGED <<ovlVars, rows, outgoing, incoming, pipeVars, anaVars, cmpVars, dgnVars,
                   lsVars,
                   colVars,
                   repVars>>

\* The decoder's router goes on from the route's last line to a line that
\* line.end_node.outgoing_lines(source=line) returned.
ExtendRoute ==
    /\ route # <<>>
    /\ Len(route) < MaxRoute
    /\ LET source == route[Len(route)]
       IN  \E l \in outgoing_lines(lines[source].to_int, source) :
             route' = Append(route, l)
    /\ UNCHANGED <<ovlVars, rows, outgoing, incoming, pipeVars, anaVars, cmpVars, dgnVars,
                   lsVars,
                   colVars,
                   repVars>>

(***************************************************************************)
(* Analyzer.analyze                                                        *)
(***************************************************************************)
\* `self.map_bounds and not self.map_bounds.covers(ls)`
OutsideMapBounds(mb) == mb # "none" /\ mb # "covers"

\* `decoded_location.p_off > 0 or decoded_location.n_off > 0`
HasOffsets_m(loc) == loc.p_off > 0 /\ loc.n_off > 0
HasOffsets(loc) == loc.p_off > 0 \/ loc.n_off > 0

\* intersection(buffered_ls, decoded_ls).length / decoded_ls.length
Percentage_m(ls) == [num |-> Length(ls), den |-> InsideLength(ls)]
Percentage(ls) == [num |-> InsideLength(ls), den |-> Length(ls)]

\* The tuple a return statement of analyze builds, given the statement
\* (branch), the verdict v of the procedure called in it, and the percentage.
ReturnOf_m(br, v, p) ==
    CASE br = "outside_map_bounds" -> [res |-> "OUTSIDE_MAP_BOUNDS", frac |-> Zero]
      [] br = "unsupported" -> [res |-> "UNSUPPORTED_LOCATION_TYPE", frac |-> Zero]
      [] br = "decode_failed" -> [res |-> v, frac |-> One]
      [] br = "ok" -> [res |-> "OK", frac |-> Zero]
      [] br = "offsets" -> [res |-> v, frac |-> p]
      [] br = "no_offsets" -> [res |-> v, frac |-> p]

ReturnOf(br, v, p) ==
    CASE br = "outside_map_bounds" -> [res |-> "OUTSIDE_MAP_BOUNDS", frac |-> Zero]
      [] br = "unsupported" -> [res |-> "UNSUPPORTED_LOCATION_TYPE", frac |-> Zero]
      [] br = "decode_failed" -> [res |-> v, frac |-> Zero]
      [] br = "ok" -> [res |-> "OK", frac |-> One]
      [] br = "offsets" -> [res |-> v, frac |-> p]
      [] br = "no_offsets" -> [res |-> v, frac |-> p]

Returned(br, v, p) ==
    [status |-> "returned", res |-> ReturnOf(br, v, p).res, frac |-> ReturnOf(br, v, p).frac]
Raised(e) == [status |-> "raised", res |-> e, frac |-> NoFrac]

\* The map-bounds test.
MapBoundsCheck ==
    /\ apc = "map_bounds"
    /\ IF OutsideMapBounds(map_bounds)
       THEN /\ branch' = "outside_map_bounds"
            /\ outcome' = Returned("outside_map_bounds", None, pct)
            /\ apc' = "end"
       ELSE /\ apc' = "binary_decode"
            /\ UNCHANGED <<branch, outcome>>
    /\ UNCHANGED <<map_bounds, loctype, full, adjusted, pct, overlays, stack, calls, casc,
                   retv, rets, asserted, encoded_loc_ref, adj, observers, awb, cmp, pipeVars,
                   restVars>>

\* t_loc_ref = binary_decode(olr) and the isinstance test; the codec raises
\* on a string that is no OpenLR code.  A line location reference has at
\* least two LRPs and two offsets.
BinaryDecode ==
    /\ apc = "binary_decode"
    /\ \E t \in {"line", "point", "invalid"} :
         CASE t = "invalid" ->
                /\ outcome' = Raised("binary_decode")
                /\ apc' = "end"
                /\ UNCHANGED <<loctype, branch, encoded_loc_ref>>
           [] t = "point" ->
                /\ loctype' = t
                /\ branch' = "unsupported"
                /\ outcome' = Returned("unsupported", None, pct)
                /\ apc' = "end"
                /\ UNCHANGED encoded_loc_ref
           [] t = "line" ->
                /\ loctype' = t
                /\ \E n \in 2..MaxLrps, po \in 0..1, no \in 0..1 :
                       encoded_loc_ref' =
                           [points |-> DecodedPoints(n), poffs |-> po, noffs |-> no]
                /\ apc' = "match_location"
                /\ UNCHANGED <<branch, outcome>>
    /\ UNCHANGED <<map_bounds, full, adjusted, pct, overlays, stack, calls, casc, retv,
                   rets, asserted, adj, observers, awb, cmp, pipeVars, restVars>>

\* match self.match_location(encoded_loc_ref): the first full-map decode.
\* On failure an overlay over the buffer is created and the cascade called.
FullMapDecode ==
    /\ apc = "match_location"
    /\ \E m \in MatchResults :
         /\ full' = m @@ [tried |-> TRUE]
         /\ observers' = [observers EXCEPT
                !["decoder_observer"] = IF m.ok THEN encoded_loc_ref.points ELSE <<>>]
         /\ IF ~m.ok
            THEN /\ overlays' = Append(overlays, create_buffer_reader("encoded_loc_ref"))
                 /\ branch' = "decode_failed"
                 /\ stack' = <<"determine_restricted_decoding_failure_cause">>
                 /\ calls' = Append(calls,
                        Call("determine_restricted_decoding_failure_cause", "analyze"))
                 /\ casc' = "AnyPath"
                 /\ apc' = "cascade"
            ELSE /\ apc' = "covers"
                 /\ UNCHANGED <<overlays, branch, stack, calls, casc>>
    /\ UNCHANGED <<map_bounds, loctype, adjusted, pct, retv, rets, outcome, asserted,
                   encoded_loc_ref, adj, awb, cmp, pipeVars, restVars>>

\* the arguments analyze_within_buffer is called with (buffered_ls is always
\* the buffer of the analysis)
WithinBufferArgs_m(r, loc, obs) ==
    [loc_ref |-> IF r = None THEN None ELSE "encoded_loc_ref", loc |-> loc,
     decoder_observer |-> obs]
WithinBufferArgs(r, loc, obs) == [loc_ref |-> r, loc |-> loc, decoder_observer |-> obs]
\* the collectors compare_locations is called with
CompareArgs_m(outside, inside) ==
    [outside_obs |-> inside, inside_obs |-> outside, index |-> 0, diagnosed |-> NotDiagnosed]
CompareArgs(outside, inside) ==
    [outside_obs |-> outside, inside_obs |-> inside, index |-> 0, diagnosed |-> NotDiagnosed]

\* `if buffered_ls.covers(decoded_ls)` and, when it does not, the percentage
\* and the choice between the two procedures.  A float division by zero
\* raises ZeroDivisionError.
CoversCheck ==
    /\ apc = "covers"
    /\ IF Covers(full.ls)
       THEN /\ branch' = "ok"
            /\ outcome' = Returned("ok", None, pct)
            /\ apc' = "end"
            /\ UNCHANGED <<pct, stack, calls, awb>>
       ELSE IF Length(full.ls) = 0
       THEN /\ outcome' = Raised("ZeroDivisionError")
            /\ apc' = "end"
            /\ UNCHANGED <<branch, pct, stack, calls, awb>>
       ELSE /\ pct' = Percentage(full.ls)
            /\ IF HasOffsets(full)
               THEN /\ branch' = "offsets"
                    /\ stack' = <<"adjust_locref_and_match">>
                    /\ calls' = Append(calls, Call("adjust_locref_and_match", "analyze"))
                    /\ apc' = "adjust_locref_and_match"
                    /\ UNCHANGED awb
               ELSE /\ branch' = "no_offsets"
                    /\ stack' = <<"analyze_within_buffer">>
                    /\ calls' = Append(calls, Call("analyze_within_buffer", "analyze"))
                    /\ awb' = WithinBufferArgs("encoded_loc_ref", "decoded_location",
                                               "decoder_observer")
                    /\ apc' = "analyze_within_buffer"
            /\ UNCHANGED outcome
    /\ UNCHANGED <<map_bounds, loctype, full, adjusted, overlays, casc, retv, rets,
                   asserted, encoded_loc_ref, adj, observers, cmp, pipeVars, restVars>>

(***************************************************************************)
(* Analyzer.adjust_locref_and_match                                        *)
(***************************************************************************)
\* adjust_locref either raises GeodError, which is caught, or returns the
\* adjusted reference, which is decoded on the full map.  Its points list is
\* the list of encoded_loc_ref; it has no offsets, so its decoded LineString
\* is the joined geometry of the lines and never a point.
AdjustAndMatch ==
    /\ apc = "adjust_locref_and_match"
    /\ \E g \in GeoResults, err \in {"none", "poffs", "noffs"} :
         LET a == adjust_locref(encoded_loc_ref, g, err)
         IN  /\ encoded_loc_ref' = [encoded_loc_ref EXCEPT !.points = a.points]
             /\ IF a.raised
                THEN /\ adj' = [status |-> "raised", itself |-> a.itself,
                                  poffs |-> a.poffs, noffs |-> a.noffs]
                     /\ retv' = "INVALID_GEOMETRY"
                     /\ apc' = "return"
                     /\ UNCHANGED <<adjusted, overlays, stack, calls, casc, observers,
                                    awb, cmp>>
                ELSE /\ adj' = [status |-> "returned", itself |-> a.itself,
                                  poffs |-> a.poffs, noffs |-> a.noffs]
                     /\ \E m \in {r \in MatchResults : r.p_off = 0 /\ r.n_off = 0} :
                          /\ adjusted' = m @@ [tried |-> TRUE]
                          /\ observers' = [observers EXCEPT
                                 !["adj_decoder_observer"] =
                                     IF m.ok THEN a.points ELSE <<>>]
                          /\ IF ~m.ok
                             THEN /\ overlays' = Append(overlays,
                                         create_buffer_reader("encoded_loc_ref"))
                                  /\ stack' = Append(stack,
                                         "determine_restricted_decoding_failure_cause")
                                  /\ calls' = Append(calls,
                                         Call("determine_restricted_decoding_failure_cause",
                                              "adjust_locref_and_match"))
                                  /\ casc' = "AnyPath"
                                  /\ apc' = "cascade"
                                  /\ UNCHANGED <<awb, cmp>>
                             ELSE IF Covers(m.ls)
                             THEN /\ stack' = Append(stack, "compare_locations")
                                  /\ calls' = Append(calls,
                                         Call("compare_locations", "adjust_locref_and_match"))
                                  /\ cmp' = CompareArgs("decoder_observer",
                                                        "adj_decoder_observer")
                                  /\ apc' = "compare_locations"
                                  /\ UNCHANGED <<overlays, casc, awb>>
                             ELSE /\ stack' = Append(stack, "analyze_within_buffer")
                                  /\ calls' = Append(calls,
                                         Call("analyze_within_buffer",
                                              "adjust_locref_and_match"))
                                  /\ awb' = WithinBufferArgs("adj_loc_ref", "adj_loc",
                                                             "adj_decoder_observer")
                                  /\ apc' = "analyze_within_buffer"
                                  /\ UNCHANGED <<overlays, casc, cmp>>
                     /\ UNCHANGED retv
    /\ UNCHANGED <<map_bounds, loctype, full, pct, rets, branch, outcome, asserted,
                   pipeVars, restVars>>

(***************************************************************************)
(* Analyzer.analyze_within_buffer                                          *)
(***************************************************************************)
\* A new overlay for the reference passed in, a StrictConfig decode on it
\* observed by a new collector, and the choice between the comparator and
\* the cascade on that same overlay.
AnalyzeWithinBuffer ==
    /\ apc = "analyze_within_buffer"
    /\ \E d \in DecodeOutcomes :
         /\ overlays' = WithDecode(Append(overlays, create_buffer_reader(awb.loc_ref)),
                                   "StrictConfig", d)
         /\ observers' = [observers EXCEPT
                !["buffer_observer"] = IF match(d) THEN encoded_loc_ref.points ELSE <<>>]
         /\ IF match(d)
            THEN /\ stack' = Append(stack, "compare_locations")
                 /\ calls' = Append(calls, Call("compare_locations", "analyze_within_buffer"))
                 /\ cmp' = CompareArgs(awb.decoder_observer, "buffer_observer")
                 /\ apc' = "compare_locations"
                 /\ UNCHANGED casc
            ELSE /\ stack' = Append(stack, "determine_restricted_decoding_failure_cause")
                 /\ calls' = Append(calls,
                        Call("determine_restricted_decoding_failure_cause",
                             "analyze_within_buffer"))
                 /\ casc' = "AnyPath"
                 /\ apc' = "cascade"
                 /\ UNCHANGED cmp
    /\ UNCHANGED <<map_bounds, loctype, full, adjusted, pct, retv, rets, branch, outcome,
                   asserted, encoded_loc_ref, adj, awb, pipeVars, restVars>>

\* `return f(...)`: the innermost procedure returns its verdict to its
\* caller, which returns it in turn, up to analyze, which wraps it into its
\* tuple.
Return ==
    /\ apc = "return"
    /\ rets' = [p \in Procs |->
                   IF \E k \in DOMAIN stack : stack[k] = p THEN retv ELSE rets[p]]
    /\ stack' = <<>>
    /\ outcome' = Returned(branch, retv, pct)
    /\ apc' = "end"
    /\ UNCHANGED <<map_bounds, loctype, full, adjusted, pct, overlays, calls, casc, retv,
                   branch, asserted, encoded_loc_ref, adj, observers, awb, cmp,
                   pipeVars, restVars>>

\* the state of an Analyzer before analyze is called
AnalyzerIdle ==
    /\ loctype = None
    /\ full = NoLoc @@ [tried |-> FALSE]
    /\ adjusted = NoLoc @@ [tried |-> FALSE]
    /\ pct = NoFrac
    /\ overlays = <<>>
    /\ stack = <<>>
    /\ calls = <<>>
    /\ casc = None
    /\ retv = None
    /\ rets = [p \in Procs |-> None]
    /\ branch = None
    /\ outcome = [status |-> "running", res |-> None, frac |-> NoFrac]
    /\ asserted = {}
    /\ encoded_loc_ref = NoRef
    /\ adj = [status |-> None, itself |-> FALSE, poffs |-> 0, noffs |-> 0]
    /\ observers = [o \in ObserverNames |-> <<>>]
    /\ awb = WithinBufferArgs(None, None, None)
    /\ cmp = CompareArgs(None, None)

\* no call of compare_locations, of diagnose_score, and no overlay
CompareIdle ==
    /\ cpc = "idle"
    /\ outside_pairs = <<>>
    /\ inside_pairs = <<>>

DiagnoseIdle ==
    /\ dpc = "idle"
    /\ reader_config = <<>>
    /\ out_score_collector = <<>>
    /\ in_score_collector = <<>>
    /\ components = <<>>
    /\ diagnosis = None

OverlayIdle ==
    /\ opc = "idle"
    /\ loc_ref = <<>>
    /\ lines = <<>>
    /\ query = <<>>

\* A LineString along the joined geometry: the half-metre marks of its
\* first and last coordinate.
Stretch(from, to) == [from |-> from, to |-> to]
\* no LineString (the source's None)
NoLs == Stretch(-1, -1)

NetworkIdle ==
    /\ rows = <<>>
    /\ outgoing = <<>>
    /\ incoming = <<>>
    /\ route = <<>>

DecodedLsIdle ==
    /\ decode_result = None
    /\ decoded_ls = NoLs

CollectorIdle ==
    /\ score_collector = None
    /\ reported = {}

RepeatIdle ==
    /\ rpc = "idle"
    /\ olr_code = None
    /\ analysis_observer = None
    /\ t_loc_ref = None
    /\ buffer_map_reader = None
    /\ frame = None
    /\ answers = {}
    /\ returned = <<>>

\* the pool when no run is under way
PipelineIdle ==
    /\ locations = <<>>
    /\ num_threads = 1
    /\ pcL = "idle"
    /\ nextLoc = 1
    /\ pillsPut = 0
    /\ q_in = <<>>
    /\ q_out = <<>>
    /\ pcW = <<"unstarted">>
    /\ msgW = <<NoMsg>>
    /\ error_count = <<0>>
    /\ pcM = "idle"
    /\ spawned = 0
    /\ active_workers = 0
    /\ first = TRUE
    /\ outf = <<>>
    /\ results = [k \in AnalysisResult |-> {}]
    /\ count = 0
    /\ total_frac = 0
    /\ putIn = <<>>
    /\ putOut = <<>>
    /\ tookOut = <<>>
    /\ analyzed = <<>>

(***************************************************************************)
(* The pool as a state machine.                                            *)
(***************************************************************************)
InitPipeline ==
    /\ num_threads \in 1..MaxLoad
    /\ locations \in SeqsUpTo(Locations, MaxLoad - num_threads)
    /\ pcL = "load"
    /\ nextLoc = 1
    /\ pillsPut = 0
    /\ q_in = <<>>
    /\ q_out = <<>>
    /\ pcW = [w \in 1..num_threads |-> "unstarted"]
    /\ msgW = [w \in 1..num_threads |-> NoMsg]
    /\ error_count = [w \in 1..num_threads |-> 0]
    /\ pcM = "spawn"
    /\ spawned = 0
    /\ active_workers = 0
    /\ first = TRUE
    /\ outf = <<>>
    /\ results = [k \in AnalysisResult |-> {}]
    /\ count = 0
    /\ total_frac = 0
    /\ putIn = <<>>
    /\ putOut = <<>>
    /\ tookOut = <<>>
    /\ analyzed = [i \in 1..Len(locations) |-> [by |-> 0, raised |-> FALSE]]
    /\ apc = "idle"
    /\ map_bounds = "none"
    /\ AnalyzerIdle
    /\ CompareIdle
    /\ DiagnoseIdle
    /\ OverlayIdle
    /\ NetworkIdle
    /\ DecodedLsIdle
    /\ CollectorIdle
    /\ RepeatIdle

NextPipeline ==
    \/ LoadLocation
    \/ LoadEnd
    \/ LoadPill
    \/ \E w \in 1..MaxLoad : WorkerGet(w)
    \/ \E w \in 1..MaxLoad : WorkerAnalyze(w)
    \/ \E w \in 1..MaxLoad : WorkerForward(w)
    \/ Spawn
    \/ AggRecv
    \/ AggExit

SpecPipeline == InitPipeline /\ [][NextPipeline]_vars

\* Every process that can take a step eventually takes one: the loader, each
\* worker and the main process are operating-system processes.
FairPipeline ==
    /\ SpecPipeline
    /\ WF_vars(Loader)
    /\ \A w \in 1..MaxLoad : WF_vars(Worker(w))
    /\ WF_vars(Main)

(***************************************************************************)
(* One call of analyze as a state machine.  The pool is not running.       *)
(***************************************************************************)
InitAnalyze ==
    /\ apc = "map_bounds"
    /\ map_bounds \in {"none", "covers", "misses"}
    /\ AnalyzerIdle
    /\ PipelineIdle
    /\ CompareIdle
    /\ DiagnoseIdle
    /\ OverlayIdle
    /\ NetworkIdle
    /\ DecodedLsIdle
    /\ CollectorIdle
    /\ RepeatIdle

NextAnalyze ==
    \/ MapBoundsCheck
    \/ BinaryDecode
    \/ FullMapDecode
    \/ CoversCheck
    \/ AdjustAndMatch
    \/ AnalyzeWithinBuffer
    \/ Cascade
    \/ CompareFirst
    \/ CompareIntermediate
    \/ CompareLast
    \/ Return

SpecAnalyze == InitAnalyze /\ [][NextAnalyze]_vars

(***************************************************************************)
(* compare_locations on its own: a call with given collectors.             *)
(***************************************************************************)
\* The state at a call of compare_locations(outside_loc, outside_obs,
\* inside_loc, inside_obs): two decodes of a reference of n LRPs have
\* filled their collectors, the inside one possibly after adjust_locref
\* rewrote the last two LRPs; each candidate lies on some line of the map.
InitCompare ==
    /\ apc = "compare_locations"
    /\ cpc = "given"
    /\ \E n \in 2..MaxLrps :
         \E ol \in [1..n -> MapLines], il \in [1..n -> MapLines] :
           \E ilrps \in {DecodedPoints(n)} \cup
                           {AdjustLast(DecodedPoints(n), g) : g \in GeoResults} :
             /\ encoded_loc_ref = [points |-> ilrps, poffs |-> 0, noffs |-> 0]
             /\ observers = [o \in ObserverNames |->
                                IF o = "decoder_observer" THEN DecodedPoints(n)
                                ELSE IF o = "adj_decoder_observer" THEN ilrps
                                ELSE <<>>]
             /\ outside_pairs = Candidates(DecodedPoints(n), ol)
             /\ inside_pairs = Candidates(ilrps, il)
    /\ cmp = CompareArgs("decoder_observer", "adj_decoder_observer")
    /\ stack = <<"compare_locations">>
    /\ calls = <<Call("compare_locations", "adjust_locref_and_match")>>
    /\ map_bounds = "none"
    /\ loctype = None
    /\ full = NoLoc @@ [tried |-> FALSE]
    /\ adjusted = NoLoc @@ [tried |-> FALSE]
    /\ pct = NoFrac
    /\ overlays = <<>>
    /\ casc = None
    /\ retv = None
    /\ rets = [p \in Procs |-> None]
    /\ branch = None
    /\ outcome = [status |-> "running", res |-> None, frac |-> NoFrac]
    /\ asserted = {}
    /\ adj = [status |-> None, itself |-> FALSE, poffs |-> 0, noffs |-> 0]
    /\ awb = WithinBufferArgs(None, None, None)
    /\ PipelineIdle
    /\ DiagnoseIdle
    /\ OverlayIdle
    /\ NetworkIdle
    /\ DecodedLsIdle
    /\ CollectorIdle
    /\ RepeatIdle

NextCompare ==
    \/ CompareFirst
    \/ CompareIntermediate
    \/ CompareLast

SpecCompare == InitCompare /\ [][NextCompare]_vars

(***************************************************************************)
(* diagnose_score on its own.                                              *)
(***************************************************************************)
\* The state of a call of diagnose_score after the two make_candidates
\* calls filled out_score_collector and in_score_collector.  The scores of
\* an inside collector that recorded a rejection are those of a new
\* collector: the code does not read them.
InitDiagnose ==
    /\ dpc = "flags"
    /\ reader_config \in Weightings
    /\ out_score_collector \in ScoreCollectors
    /\ in_score_collector \in
         {c \in ScoreCollectors :
            RejectVerdict(c) # None =>
              c.geo_score + c.bearing_score + c.frc_score + c.fow_score = 0}
    /\ components = <<>>
    /\ diagnosis = None
    /\ apc = "end"
    /\ map_bounds = "none"
    /\ AnalyzerIdle
    /\ PipelineIdle
    /\ CompareIdle
    /\ OverlayIdle
    /\ NetworkIdle
    /\ DecodedLsIdle
    /\ CollectorIdle
    /\ RepeatIdle

NextDiagnose ==
    \/ DiagnoseFlags
    \/ DiagnoseComponents

SpecDiagnose == InitDiagnose /\ [][NextDiagnose]_vars

(***************************************************************************)
(* One overlay and the decoder's candidate queries on it.                  *)
(***************************************************************************)
\* BufferReader.__init__: an overlay for a reference of 2..MaxLrps LRPs,
\* its lines contained in the buffer or not, none flagged
InitOverlay ==
    /\ opc = "built"
    /\ \E n \in 2..MaxLrps : loc_ref \in [1..n -> Coordinates]
    /\ \E contained \in [LineIds -> BOOLEAN] :
         lines = [l \in LineIds |-> Line(l, contained[l])]
    /\ query = <<>>
    /\ apc = "end"
    /\ map_bounds = "none"
    /\ AnalyzerIdle
    /\ PipelineIdle
    /\ CompareIdle
    /\ DiagnoseIdle
    /\ NetworkIdle
    /\ DecodedLsIdle
    /\ CollectorIdle
    /\ RepeatIdle

NextOverlay == FindLinesCloseTo

SpecOverlay == InitOverlay /\ [][NextOverlay]_vars

(***************************************************************************)
(* The road network of an overlay: construction, queries and routes.       *)
(***************************************************************************)
\* BufferReader.__init__ before init_objects(): the rows the database
\* holds for the buffer; the reference has its first LRP at node 1 and its
\* last LRP at node 2.
InitNetwork ==
    /\ opc = "rows"
    /\ rows \in Rows
    /\ loc_ref = <<NodeAt(1), NodeAt(2)>>
    /\ lines = <<>>
    /\ query = <<>>
    /\ outgoing = <<>>
    /\ incoming = <<>>
    /\ route = <<>>
    /\ apc = "end"
    /\ map_bounds = "none"
    /\ AnalyzerIdle
    /\ PipelineIdle
    /\ CompareIdle
    /\ DiagnoseIdle
    /\ DecodedLsIdle
    /\ CollectorIdle
    /\ RepeatIdle

NextNetwork ==
    \/ InitObjects
    \/ FindLinesCloseTo
    \/ StartRoute
    \/ ExtendRoute

SpecNetwork == InitNetwork /\ [][NextNetwork]_vars

(***************************************************************************)
(* build_decoded_ls on its own.  Lengths and offsets are whole metres;     *)
(* the function halves a difference of them, so every quantity it computes *)
(* is kept in half metres (Half(x) is x metres).                           *)
(***************************************************************************)
Half(x) == 2 * x
Larger(a, b) == IF a >= b THEN a ELSE b

\* A LineLocation as build_decoded_ls reads it: the summed length of its
\* lines (at least one line of at least a metre) and its two offsets.
LineLocations == [length : 1..MaxMeters, p_off : 0..MaxMeters, n_off : 0..MaxMeters]

\* `if ls_length - pos_off - neg_off < 1.0:`
TooShort(loc) == loc.length - loc.p_off - loc.n_off < 1

AdditionalLength_m(loc) == Larger(loc.p_off + loc.n_off - loc.length + 1, Half(1))

\* additional_length = max((pos_off + neg_off - ls_length) / 2.0, 1.0),
\* in half metres
AdditionalLength(loc) == Larger(loc.p_off + loc.n_off - loc.length, Half(1))

\* pos_off and neg_off after the reduction, in half metres
ReducedOffsets(loc) ==
    IF TooShort(loc)
    THEN [pos |-> Larger(Half(loc.p_off) - AdditionalLength(loc), 0),
          neg |-> Larger(Half(loc.n_off) - AdditionalLength(loc), 0)]
    ELSE [pos |-> Half(loc.p_off), neg |-> Half(loc.n_off)]

\* split_line(ls, offset)[1]: the part behind the offset; None if it would
\* be a point
Behind(ls, offset) ==
    IF offset >= ls.to - ls.from THEN NoLs ELSE Stretch(ls.from + offset, ls.to)

\* split_line(front.reverse(), offset)[1].reverse(): the part before the
\* last `offset` half metres of front; None if it would be a point
Before(front, offset) ==
    IF offset >= front.to - front.from THEN NoLs
    ELSE Stretch(front.from, front.to - offset)

build_decoded_ls(loc) ==
    LET ls == Stretch(0, Half(loc.length))
        off == ReducedOffsets(loc)
    IN  IF loc.p_off > 0 \/ loc.n_off > 0
        THEN IF off.pos > 0 /\ Behind(ls, off.pos) = NoLs
             THEN Stretch(ls.to, ls.to)
             ELSE LET front == IF off.pos > 0 THEN Behind(ls, off.pos) ELSE ls
                  IN  IF off.neg > 0
                      THEN IF Before(front, off.neg) = NoLs
                           THEN Stretch(front.from, front.from)
                           ELSE Before(front, off.neg)
                      ELSE front
        ELSE ls

\* decoded_ls = self.build_decoded_ls(location)
BuildDecodedLs ==
    /\ decoded_ls = NoLs
    /\ decoded_ls' = build_decoded_ls(decode_result)
    /\ UNCHANGED <<decode_result, pipeVars, anaVars, cmpVars, dgnVars, ovlVars, netVars,
                   colVars,
                   repVars>>

InitDecodedLs ==
    /\ decode_result \in LineLocations
    /\ decoded_ls = NoLs
    /\ apc = "end"
    /\ map_bounds = "none"
    /\ AnalyzerIdle
    /\ PipelineIdle
    /\ CompareIdle
    /\ DiagnoseIdle
    /\ OverlayIdle
    /\ NetworkIdle
    /\ CollectorIdle
    /\ RepeatIdle

NextDecodedLs == BuildDecodedLs

SpecDecodedLs == InitDecodedLs /\ [][NextDecodedLs]_vars

(***************************************************************************)
(* ScoreCollector (decoder_observer) as the observer of make_candidates.   *)
(***************************************************************************)
\* ScoreCollector(): the scores are 0.0 and no rejection is recorded
NewScoreCollector ==
    [geo_score |-> 0, bearing_score |-> 0, frc_score |-> 0, fow_score |-> 0,
     frc_reject |-> FALSE, bearing_reject |-> FALSE, score_reject |-> FALSE]

\* the scores of one scoring event
Scores ==
    [geo_score : 0..MaxScore, bearing_score : 0..MaxScore, frc_score : 0..MaxScore,
     fow_score : 0..MaxScore]

\* a candidate was found: nothing is recorded
on_candidate_found(c) == c

\* a candidate was scored: the scores overwrite those of the event before
on_candidate_score(c, s) ==
    [c EXCEPT !.geo_score = s.geo_score, !.bearing_score = s.bearing_score,
              !.frc_score = s.frc_score, !.fow_score = s.fow_score]

on_candidate_rejected_frc_m(c) == c

\* a candidate was rejected for its FRC
on_candidate_rejected_frc(c) == [c EXCEPT !.frc_reject = TRUE]

\* a candidate was rejected for its bearing
on_candidate_rejected_bearing(c) == [c EXCEPT !.bearing_reject = TRUE]

\* a candidate was rejected for its low score
on_candidate_rejected(c) == [c EXCEPT !.score_reject = TRUE]

\* The decoder calls one observer method on the collector.
ReportFound ==
    /\ score_collector' = on_candidate_found(score_collector)
    /\ reported' = reported \cup {"on_candidate_found"}
    /\ UNCHANGED <<pipeVars, anaVars, cmpVars, dgnVars, ovlVars, netVars, lsVars, repVars>>

ReportScore ==
    \E s \in Scores :
      /\ score_collector' = on_candidate_score(score_collector, s)
      /\ reported' = reported \cup {"on_candidate_score"}
      /\ UNCHANGED <<pipeVars, anaVars, cmpVars, dgnVars, ovlVars, netVars, lsVars, repVars>>

ReportRejectedFrc ==
    /\ score_collector' = on_candidate_rejected_frc(score_collector)
    /\ reported' = reported \cup {"on_candidate_rejected_frc"}
    /\ UNCHANGED <<pipeVars, anaVars, cmpVars, dgnVars, ovlVars, netVars, lsVars, repVars>>

ReportRejectedBearing ==
    /\ score_collector' = on_candidate_rejected_bearing(score_collector)
    /\ reported' = reported \cup {"on_candidate_rejected_bearing"}
    /\ UNCHANGED <<pipeVars, anaVars, cmpVars, dgnVars, ovlVars, netVars, lsVars, repVars>>

ReportRejected ==
    /\ score_collector' = on_candidate_rejected(score_collector)
    /\ reported' = reported \cup {"on_candidate_rejected"}
    /\ UNCHANGED <<pipeVars, anaVars, cmpVars, dgnVars, ovlVars, netVars, lsVars, repVars>>

InitCollector ==
    /\ score_collector = NewScoreCollector
    /\ reported = {}
    /\ apc = "end"
    /\ map_bounds = "none"
    /\ AnalyzerIdle
    /\ PipelineIdle
    /\ CompareIdle
    /\ DiagnoseIdle
    /\ OverlayIdle
    /\ NetworkIdle
    /\ DecodedLsIdle
    /\ RepeatIdle

NextCollector ==
    \/ ReportFound
    \/ ReportScore
    \/ ReportRejectedFrc
    \/ ReportRejectedBearing
    \/ ReportRejected

SpecCollector == InitCollector /\ [][NextCollector]_vars

(***************************************************************************)
(* Two calls of Analyzer.analyze with the same olr and geometry, on one    *)
(* Analyzer and one map snapshot.                                          *)
(***************************************************************************)
\* binary_decode(olr): a new reference object each time it is called
binary_decode(code) ==
    [points |-> DecodedPoints(code.n), poffs |-> code.poffs, noffs |-> code.noffs]

NoReader == [loc_ref |-> NoRef, buffer |-> None, decodes |-> <<>>]

\* the locals of a call: the observer it was given, percentage_within_buffer,
\* what geoutils will compute in adjust_locref, the reference handed to
\* analyze_within_buffer, and the cascade's next configuration
NoFrame ==
    [observer |-> None, pct |-> 0, geo |-> [first |-> FALSE, pen |-> FALSE, last |-> FALSE],
     err |-> "none", ref |-> NoRef, config |-> None]

\* the verdicts compare_locations ends with, as far as they are told apart
Diagnoses == {"BETTER_GEOLOCATION_FOUND", "BETTER_FRC_FOUND"}

NoLocation ==
    [found |-> FALSE, covered |-> FALSE, offsets |-> FALSE, pct |-> 0,
     geo |-> NoFrame.geo, err |-> "none", diag |-> None]

\* What a decode on the full map can give for a reference: nothing; a
\* location the buffer covers (diag: what comparing it with an earlier
\* location would find); or a location the buffer does not cover, with its
\* share inside the buffer, whether it has offsets, and what geoutils makes
\* of its line in adjust_locref.
FullMapAnswers(ref) ==
    {NoLocation}
      \cup {[NoLocation EXCEPT !.found = TRUE, !.covered = TRUE, !.pct = 100, !.diag = d] :
               d \in Diagnoses}
      \cup {[NoLocation EXCEPT !.found = TRUE, !.pct = p, !.offsets = o,
                               !.geo = [first |-> g, pen |-> g, last |-> g], !.err = e] :
               p \in {0, 50}, g \in BOOLEAN,
               o \in {b \in BOOLEAN : b => ~NothingToDo(ref)},
               e \in {"none", "noffs"}}

\* What BufferReader.match can give: a location (for the strict decode, with
\* what comparing it with the full-map location would find) or None.
OverlayAnswers(config) ==
    {[NoLocation EXCEPT !.found = match(d),
                        !.diag = IF match(d) /\ config = "StrictConfig" THEN v ELSE None] :
        d \in DecodeOutcomes, v \in Diagnoses}

\* a decode: which one, of which reference, on which overlay in which state
Asked(op, ref, reader) == [op |-> op, ref |-> ref, reader |-> reader]

\* The same map snapshot: a decode that was run before with the same
\* reference on an overlay in the same state gives what it gave then.
Answer(ask, possible) ==
    IF \E a \in answers : a.ask = ask
    THEN {a.out : a \in {b \in answers : b.ask = ask}}
    ELSE possible

\* the overlay after a decode ran on it
Decoded(reader, config, out) ==
    [reader EXCEPT !.decodes = Append(@, [config |-> config, ok |-> out.found])]

Returning(res, frac) == [res |-> res, frac |-> frac]

\* analyze(olr, ls, analysis_observer) up to binary_decode
StartCall ==
    /\ rpc \in {"idle", "returned"}
    /\ Len(returned) < 2
    /\ \E obs \in {None, "observer"} :
         /\ analysis_observer' = obs
         /\ frame' = [NoFrame EXCEPT !.observer = obs]
    /\ t_loc_ref' = binary_decode(olr_code)
    /\ rpc' = "match_location"
    /\ UNCHANGED <<olr_code, buffer_map_reader, answers, returned, pipeVars, anaVars,
                   cmpVars, dgnVars, ovlVars, netVars, lsVars, colVars>>

\* `match self.match_location(encoded_loc_ref):` and what follows it in
\* analyze
MatchLocation ==
    /\ rpc = "match_location"
    /\ LET ask == Asked("match_location", t_loc_ref, NoReader)
       IN  \E out \in Answer(ask, FullMapAnswers(t_loc_ref)) :
             /\ answers' = answers \cup {[ask |-> ask, out |-> out]}
             /\ IF ~out.found
                THEN /\ buffer_map_reader' = create_buffer_reader(t_loc_ref)
                     /\ frame' = [frame EXCEPT !.config = "AnyPath"]
                     /\ rpc' = "cascade"
                     /\ UNCHANGED returned
                ELSE IF out.covered
                THEN /\ returned' = Append(returned, Returning("OK", 100))
                     /\ rpc' = "returned"
                     /\ UNCHANGED <<buffer_map_reader, frame>>
                ELSE /\ frame' = [frame EXCEPT !.pct = out.pct, !.geo = out.geo,
                                               !.err = out.err, !.ref = t_loc_ref]
                     /\ rpc' = IF out.offsets THEN "adjust_locref_and_match"
                               ELSE "analyze_within_buffer"
                     /\ UNCHANGED <<buffer_map_reader, returned>>
    /\ UNCHANGED <<olr_code, analysis_observer, t_loc_ref, pipeVars, anaVars, cmpVars,
                   dgnVars, ovlVars, netVars, lsVars, colVars>>

\* adjust_locref_and_match up to its return or its call of
\* analyze_within_buffer.  adjust_locref rewrites the points of
\* encoded_loc_ref; adj_loc_ref shares them.
AdjustLocrefAndMatch ==
    /\ rpc = "adjust_locref_and_match"
    /\ LET r == adjust_locref(t_loc_ref, frame.geo, frame.err)
           adj_loc_ref == [points |-> r.points, poffs |-> r.poffs, noffs |-> r.noffs]
           encoded_loc_ref_now == [t_loc_ref EXCEPT !.points = r.points]
           ask == Asked("match_location", adj_loc_ref, NoReader)
       IN  /\ t_loc_ref' = encoded_loc_ref_now
           /\ IF r.raised
              THEN /\ returned' = Append(returned, Returning("INVALID_GEOMETRY", frame.pct))
                   /\ rpc' = "returned"
                   /\ UNCHANGED <<buffer_map_reader, frame, answers>>
              ELSE \E out \in Answer(ask, FullMapAnswers(adj_loc_ref)) :
                     /\ answers' = answers \cup {[ask |-> ask, out |-> out]}
                     /\ IF ~out.found
                        THEN /\ buffer_map_reader' = create_buffer_reader(encoded_loc_ref_now)
                             /\ frame' = [frame EXCEPT !.config = "AnyPath"]
                             /\ rpc' = "cascade"
                             /\ UNCHANGED returned
                        ELSE IF out.covered
                        THEN /\ returned' = Append(returned, Returning(out.diag, frame.pct))
                             /\ rpc' = "returned"
                             /\ UNCHANGED <<buffer_map_reader, frame>>
                        ELSE /\ frame' = [frame EXCEPT !.ref = adj_loc_ref]
                             /\ rpc' = "analyze_within_buffer"
                             /\ UNCHANGED <<buffer_map_reader, returned>>
    /\ UNCHANGED <<olr_code, analysis_observer, pipeVars, anaVars, cmpVars, dgnVars,
                   ovlVars, netVars, lsVars, colVars>>

\* analyze_within_buffer: a new overlay, the strict decode on it, and
\* compare_locations when it found a location
MatchWithinBuffer ==
    /\ rpc = "analyze_within_buffer"
    /\ LET reader == create_buffer_reader(frame.ref)
           ask == Asked("StrictConfig", reader.loc_ref, reader)
       IN  \E out \in Answer(ask, OverlayAnswers("StrictConfig")) :
             /\ answers' = answers \cup {[ask |-> ask, out |-> out]}
             /\ buffer_map_reader' = Decoded(reader, "StrictConfig", out)
             /\ IF out.found
                THEN /\ returned' = Append(returned, Returning(out.diag, frame.pct))
                     /\ rpc' = "returned"
                     /\ UNCHANGED frame
                ELSE /\ frame' = [frame EXCEPT !.config = "AnyPath"]
                     /\ rpc' = "cascade"
                     /\ UNCHANGED returned
    /\ UNCHANGED <<olr_code, analysis_observer, t_loc_ref, pipeVars, anaVars, cmpVars,
                   dgnVars, ovlVars, netVars, lsVars, colVars>>

\* one `if buffer_map_reader.match(config=...)` of
\* determine_restricted_decoding_failure_cause
CascadeDecode ==
    /\ rpc = "cascade"
    /\ LET ask == Asked(frame.config, buffer_map_reader.loc_ref, buffer_map_reader)
       IN  \E out \in Answer(ask, OverlayAnswers(frame.config)) :
             LET step == CascadeStep(frame.config, out.found)
             IN  /\ answers' = answers \cup {[ask |-> ask, out |-> out]}
                 /\ buffer_map_reader' = Decoded(buffer_map_reader, frame.config, out)
                 /\ IF step.ret # None
                    THEN /\ returned' = Append(returned, Returning(step.ret, frame.pct))
                         /\ rpc' = "returned"
                         /\ UNCHANGED frame
                    ELSE /\ frame' = [frame EXCEPT !.config = step.next]
                         /\ UNCHANGED <<rpc, returned>>
    /\ UNCHANGED <<olr_code, analysis_observer, t_loc_ref, pipeVars, anaVars, cmpVars,
                   dgnVars, ovlVars, netVars, lsVars, colVars>>

InitRepeat ==
    /\ rpc = "idle"
    /\ olr_code \in [n : {2}, poffs : 0..1, noffs : 0..1]
    /\ analysis_observer = None
    /\ t_loc_ref = NoRef
    /\ buffer_map_reader = NoReader
    /\ frame = NoFrame
    /\ answers = {}
    /\ returned = <<>>
    /\ apc = "end"
    /\ map_bounds = "none"
    /\ AnalyzerIdle
    /\ PipelineIdle
    /\ CompareIdle
    /\ DiagnoseIdle
    /\ OverlayIdle
    /\ NetworkIdle
    /\ DecodedLsIdle
    /\ CollectorIdle

NextRepeat ==
    \/ StartCall
    \/ MatchLocation
    \/ AdjustLocrefAndMatch
    \/ MatchWithinBuffer
    \/ CascadeDecode

SpecRepeat == InitRepeat /\ [][NextRepeat]_vars

(***************************************************************************)
(* The aggregator loop on its own: the loader and a single worker have     *)
(* finished, every verdict and the worker's sentinel wait on q_out, and    *)
(* the main process has written the header and is about to call            *)
(* q_out.get() for the first time.                                         *)
(***************************************************************************)
\* Verdicts of analyze on q_out: those of AnalyzeOutcomes that are returned,
\* and the second one again with another fraction (the same code submitted
\* with another source geometry).
AggOutcomes ==
    {o \in AnalyzeOutcomes : ~o.raised}
        \cup {[raised |-> FALSE, res |-> "BETTER_FRC_FOUND", frac |-> 25]}

InitAggregate ==
    /\ num_threads = 1
    /\ \E n \in 0..(MaxLoad - 1) :
         \E olrs \in [1..n -> OLRs], outs \in [1..n -> AggOutcomes] :
           LET recs == [k \in 1..n |-> [olr |-> olrs[k], geometry |-> "linestring",
                                        attrs |-> "ok"]]
               msgs == [k \in 1..n |->
                           WorkerBody(RecMsg(k, recs[k]), outs[k], 0, 0).put[1]]
           IN  /\ locations = recs
               /\ nextLoc = n + 1
               /\ putIn = [k \in 1..n |-> RecMsg(k, recs[k])] \o <<POISON_PILL_MSG>>
               /\ q_out = msgs \o <<POISON_PILL_MSG>>
               /\ putOut = Stamp(1, msgs \o <<POISON_PILL_MSG>>)
               /\ analyzed = [k \in 1..n |-> [by |-> 1, raised |-> FALSE]]
    /\ pcL = "done"
    /\ pillsPut = 1
    /\ q_in = <<>>
    /\ pcW = [w \in 1..1 |-> "done"]
    /\ msgW = [w \in 1..1 |-> NoMsg]
    /\ error_count = [w \in 1..1 |-> 0]
    /\ pcM = "recv"
    /\ spawned = 1
    /\ active_workers = 1
    /\ first = TRUE
    /\ outf = <<[text |-> "header", comma |-> FALSE, rec |-> NoMsg]>>
    /\ results = [k \in AnalysisResult |-> {}]
    /\ count = 0
    /\ total_frac = 0
    /\ tookOut = <<>>
    /\ apc = "idle"
    /\ map_bounds = "none"
    /\ AnalyzerIdle
    /\ CompareIdle
    /\ DiagnoseIdle
    /\ OverlayIdle
    /\ NetworkIdle
    /\ DecodedLsIdle
    /\ CollectorIdle
    /\ RepeatIdle

NextAggregate ==
    \/ AggRecv
    \/ AggExit

SpecAggregate == InitAggregate /\ [][NextAggregate]_vars

(***************************************************************************)
(* Properties of the pool.                                                 *)
(***************************************************************************)
IsPill(m) == m.type = "__DONE__"
IsVerdict(m) == m.type = "verdict"

\* positions of putOut holding a verdict for element i of the input
VerdictsFor(i) == {k \in DOMAIN putOut : IsVerdict(putOut[k].msg) /\ putOut[k].msg.i = i}
\* positions of putOut written by worker w
PutsBy(w) == {k \in DOMAIN putOut : putOut[k].by = w}
PillsTaken == Cardinality({k \in DOMAIN tookOut : IsPill(tookOut[k])})
PillsOnQIn == Cardinality({k \in DOMAIN putIn : IsPill(putIn[k])})
WorkerExited(w) == pcW[w] \in {"done", "crashed"}

\* C1: under fair scheduling every run terminates: eventually all N workers
\* have exited and the aggregator has received N sentinels and left its
\* receive loop, also when an analysis raises or a record cannot be parsed.
C1_EveryRunTerminates ==
    <>(/\ \A w \in 1..num_threads : WorkerExited(w)
       /\ PillsTaken = num_threads
       /\ pcM = "done")

\* C2: if analyze raises for a record, the worker that popped it puts one
\* verdict UNKNOWN_ERROR with fraction 0.0 for that record on q_out and stays
\* alive to pop its next message.
C2_RaiseYieldsUnknownError ==
    \A i \in DOMAIN analyzed :
        (analyzed[i].by # 0 /\ analyzed[i].raised) =>
            /\ Cardinality(VerdictsFor(i)) = 1
            /\ \A k \in VerdictsFor(i) :
                   /\ putOut[k].by = analyzed[i].by
                   /\ putOut[k].msg.res = "UNKNOWN_ERROR"
                   /\ putOut[k].msg.frac = 0
            /\ pcW[analyzed[i].by] # "crashed"

\* C3: every record a worker has popped and analysed has exactly one verdict
\* on q_out, whether its analysis returned or raised, and the aggregator
\* writes one location record for each verdict it takes, never two.
C3_ExactlyOneVerdict ==
    \A i \in DOMAIN analyzed :
        /\ analyzed[i].by # 0 => Cardinality(VerdictsFor(i)) = 1
        /\ Cardinality({k \in DOMAIN outf : outf[k].text = "rec" /\ outf[k].rec.i = i})
             = Cardinality({k \in DOMAIN tookOut :
                               IsVerdict(tookOut[k]) /\ tookOut[k].i = i})
        /\ Cardinality({k \in DOMAIN outf : outf[k].text = "rec" /\ outf[k].rec.i = i}) <= 1

\* C4: the sentinel protocol.  The loader never puts more than N sentinels,
\* has put exactly N when it finishes, and puts them only after the last
\* record; a worker puts a sentinel on q_out exactly when it has taken one
\* and exits, that sentinel being the last message it puts; the aggregator
\* has left its receive loop only with N sentinels taken, and with N
\* sentinels taken it receives no more.
C4_SentinelProtocol ==
    /\ PillsOnQIn = pillsPut
    /\ pillsPut <= num_threads
    /\ pcL = "done" => pillsPut = num_threads
    /\ pillsPut > 0 => nextLoc > Len(locations)
    /\ \A j, k \in DOMAIN putIn : (j < k /\ IsPill(putIn[j])) => IsPill(putIn[k])
    /\ \A w \in 1..num_threads :
         LET pills == {k \in PutsBy(w) : IsPill(putOut[k].msg)}
         IN  /\ Cardinality(pills) = (IF pcW[w] = "done" THEN 1 ELSE 0)
             /\ \A k \in pills : \A j \in PutsBy(w) : j <= k
    /\ pcM = "done" => PillsTaken = num_threads
    /\ PillsTaken <= num_threads
    /\ (pcM = "recv" /\ PillsTaken = num_threads) => ~ENABLED AggRecv /\ ENABLED AggExit

\* a run with two workers and a record, ended by the sentinels
W4_ShutdownByPills ==
    /\ pcM = "done"
    /\ num_threads = 2
    /\ Len(putIn) > num_threads
    /\ \A w \in 1..num_threads : pcW[w] = "done"

\* C5: a record that cannot be parsed (undecodable geometry, not a
\* LineString, a missing field) is skipped and nothing else: the loader goes
\* on, every later valid record is put on q_in, and the N sentinels follow.
Parseable(loc) == loc.geometry = "linestring" /\ loc.olr # Missing /\ loc.attrs = "ok"

C5_BadRecordOnlySkipped ==
    \A k \in DOMAIN locations :
        (k < nextLoc /\ ~Parseable(locations[k])) =>
            /\ pcL # "crashed"
            /\ pcL = "done" =>
                 /\ \A j \in DOMAIN locations :
                        (j > k /\ Parseable(locations[j])) =>
                            \E m \in DOMAIN putIn : putIn[m] = RecMsg(j, locations[j])
                 /\ PillsOnQIn = num_threads

(***************************************************************************)
(* Properties of analyze.                                                  *)
(***************************************************************************)
CascadeName == "determine_restricted_decoding_failure_cause"
AnalyzeReturned == outcome.status = "returned"

\* the decodes the cascade has run, in order: those on the newest overlay
\* after the StrictConfig decode analyze_within_buffer may have run on it
CascadeDecodes ==
    IF \E k \in DOMAIN calls : calls[k].proc = CascadeName
    THEN SelectSeq(overlays[Len(overlays)].decodes, LAMBDA d : d.config # "StrictConfig")
    ELSE <<>>

ClaimedOrder == <<"AnyPath", "IgnoreFRC", "IgnoreFOW", "IgnorePathLength", "IgnoreBearing">>
ClaimedVerdict == <<"MISSING_OR_MISCONFIGURED_ROAD", "FRC_MISMATCH", "FOW_MISMATCH",
                    "PATH_LENGTH_MISMATCH", "BEARING_MISMATCH">>
\* the k-th cascade decode decides the verdict
Decides(d, k) == IF k = 1 THEN ~d[k].ok ELSE d[k].ok

\* C6: the cascade decodes on one overlay in the order AnyPath, IgnoreFRC,
\* IgnoreFOW, IgnorePathLength, IgnoreBearing, attempts no decode after the
\* first deciding one (a failed AnyPath, or a success of one of the four
\* others), returns the verdict of that decode, and returns
\* MULTIPLE_ATTRIBUTE_MISMATCHES when AnyPath succeeds and the four fail.
C6_CascadeOrder ==
    LET d == CascadeDecodes
        v == rets[CascadeName]
    IN  /\ Len(d) <= 5
        /\ \A k \in DOMAIN d : d[k].config = ClaimedOrder[k]
        /\ \A k \in DOMAIN d : k < Len(d) => ~Decides(d, k)
        /\ \A o \in DOMAIN overlays :
               o < Len(overlays) =>
                   \A k \in DOMAIN overlays[o].decodes :
                       overlays[o].decodes[k].config = "StrictConfig"
        /\ v # None =>
               /\ Len(d) >= 1
               /\ IF Decides(d, Len(d))
                  THEN v = ClaimedVerdict[Len(d)]
                  ELSE Len(d) = 5 /\ v = "MULTIPLE_ATTRIBUTE_MISMATCHES"

\* the cascade returned on a success of IgnorePathLength, after IgnoreFRC and
\* IgnoreFOW failed
W6_PathLengthDecides ==
    /\ rets[CascadeName] = "PATH_LENGTH_MISMATCH"
    /\ Len(CascadeDecodes) = 4
    /\ CascadeDecodes[4].ok

AnyPathFailed ==
    /\ Len(CascadeDecodes) >= 1
    /\ ~CascadeDecodes[1].ok

\* C7 (as stated): whenever the AnyPath decode fails on an overlay, no
\* other cascade decode succeeds on that overlay, and the implementation
\* asserts this: an assert statement of the cascade is evaluated.
C7_MonotoneAndAsserted ==
    AnyPathFailed =>
        /\ \A k \in DOMAIN CascadeDecodes : k > 1 => ~CascadeDecodes[k].ok
        /\ apc \in {"return", "end"} => \E a \in asserted : a.proc = CascadeName

\* C7 (amended): whenever the AnyPath decode fails on an overlay, the
\* cascade attempts no other decode on that overlay, so none succeeds, and
\* returns MISSING_OR_MISCONFIGURED_ROAD at once; no assertion is evaluated.
C7_AnyPathFailureEndsCascade ==
    AnyPathFailed =>
        /\ Len(CascadeDecodes) = 1
        /\ apc \in {"return", "end"}
        /\ retv = "MISSING_OR_MISCONFIGURED_ROAD"
        /\ asserted = {}

\* analyze returned after the AnyPath decode failed
W7_AnyPathFailed ==
    /\ AnyPathFailed
    /\ AnalyzeReturned
    /\ outcome.res = "MISSING_OR_MISCONFIGURED_ROAD"

CascadeVerdicts ==
    {"MISSING_OR_MISCONFIGURED_ROAD", "FRC_MISMATCH", "FOW_MISMATCH",
     "PATH_LENGTH_MISMATCH", "BEARING_MISMATCH", "MULTIPLE_ATTRIBUTE_MISMATCHES"}

\* C9: the returned fraction is exactly 1.0 when the verdict is OK and
\* exactly 0.0 when the verdict is OUTSIDE_MAP_BOUNDS or
\* UNSUPPORTED_LOCATION_TYPE or a cascade verdict reached because the first
\* full-map decode failed.
C9_FractionFixedByBranch ==
    AnalyzeReturned =>
        /\ outcome.res = "OK" => outcome.frac = One
        /\ outcome.res \in {"OUTSIDE_MAP_BOUNDS", "UNSUPPORTED_LOCATION_TYPE"} =>
               outcome.frac = Zero
        /\ (full.tried /\ ~full.ok) =>
               outcome.res \in CascadeVerdicts /\ outcome.frac = Zero

\* a cascade verdict after a failed first decode
W9_CascadeAfterFailedDecode ==
    /\ AnalyzeReturned
    /\ full.tried /\ ~full.ok
    /\ outcome.res = "FRC_MISMATCH"

\* C10: whenever analyze returns, 0 <= fraction <= 1, also when the fraction
\* is length(intersection(buffer, decoded)) / length(decoded).
C10_FractionInUnitInterval ==
    AnalyzeReturned =>
        /\ outcome.frac.den > 0
        /\ 0 <= outcome.frac.num
        /\ outcome.frac.num <= outcome.frac.den

\* a fraction strictly between 0 and 1 came from the division
W10_ProperFraction ==
    /\ AnalyzeReturned
    /\ outcome.frac = Percentage(full.ls)
    /\ 0 < outcome.frac.num /\ outcome.frac.num < outcome.frac.den

\* C11: analyze never divides by zero when computing the fraction: whenever
\* the decoded geometry has zero length, the covers branch is taken (the
\* verdict is OK) and the division is not evaluated, also when the
\* degenerate point lies outside the buffer.
C11_NoDivisionByZero ==
    (full.ok /\ Length(full.ls) = 0 /\ apc = "end") =>
        /\ outcome # Raised("ZeroDivisionError")
        /\ branch = "ok"
        /\ pct = NoFrac

\* C12: whenever compare_locations is invoked from analyze, both candidate
\* sequences have equal length and the LRPs paired at every intermediate
\* index are equal, so no assert of compare_locations fails, also after
\* adjust_locref rewrote the penultimate LRP of a reference with three or
\* more LRPs and noffs > 0.
C12_ComparatorPrecondition ==
    /\ \A a \in asserted : a.proc = "compare_locations" => a.ok
    /\ outcome # Raised("AssertionError")

AdjustName == "adjust_locref_and_match"
WithinBufferName == "analyze_within_buffer"
\* the LRPs of the reference as binary_decode returned it
OriginalPoints == DecodedPoints(Len(encoded_loc_ref.points))

\* C13: adjust-and-match returns INVALID_GEOMETRY if adjust_locref raises a
\* geodesic error; otherwise it decodes the adjusted reference on the full
\* map and returns the cascade's verdict on a buffer overlay if that decode
\* fails, the comparator's verdict between the candidates of the decode
\* before the adjustment (outside) and after it (inside) if the buffer
\* covers the decoded geometry, and otherwise the verdict of
\* analyze-within-buffer called with the adjusted reference.
C13_AdjustAndMatch ==
    rets[AdjustName] # None =>
        /\ calls[1] = Call(AdjustName, "analyze")
        /\ IF adj.status = "raised"
           THEN /\ rets[AdjustName] = "INVALID_GEOMETRY"
                /\ ~adjusted.tried /\ Len(calls) = 1 /\ overlays = <<>>
           ELSE /\ adj.status = "returned"
                /\ adjusted.tried
                /\ IF ~adjusted.ok
                   THEN /\ calls = <<calls[1], Call(CascadeName, AdjustName)>>
                        /\ Len(overlays) = 1
                        /\ overlays[1].buffer = "buffered_ls"
                        /\ rets[AdjustName] = rets[CascadeName]
                        /\ rets[AdjustName] \in CascadeVerdicts
                   ELSE IF Covers(adjusted.ls)
                   THEN /\ calls = <<calls[1], Call("compare_locations", AdjustName)>>
                        /\ overlays = <<>>
                        /\ rets[AdjustName] = rets["compare_locations"]
                        /\ cmp.outside_obs = "decoder_observer"
                        /\ cmp.inside_obs = "adj_decoder_observer"
                        /\ observers["decoder_observer"] = OriginalPoints
                        /\ observers["adj_decoder_observer"] = encoded_loc_ref.points
                   ELSE /\ calls[2] = Call(WithinBufferName, AdjustName)
                        /\ rets[AdjustName] = rets[WithinBufferName]
                        /\ awb.loc_ref = "adj_loc_ref"
                        /\ overlays[1].loc_ref = "adj_loc_ref"
                        /\ observers["adj_decoder_observer"] = encoded_loc_ref.points

\* adjust-and-match returned the comparator's verdict for a reference that
\* adjust_locref had changed
W13_ComparedAfterAdjustment ==
    /\ rets[AdjustName] = "BETTER_BEARING_FOUND"
    /\ adjusted.ok /\ Covers(adjusted.ls)
    /\ encoded_loc_ref.points # OriginalPoints

\* C14: analyze-within-buffer builds one overlay, attempts a Strict decode
\* on it, and returns the comparator's verdict with the full-map candidates
\* as outside and the overlay candidates as inside if that decode succeeds,
\* and otherwise the cascade's verdict computed on that same overlay.
C14_AnalyzeWithinBuffer ==
    rets[WithinBufferName] # None =>
        /\ Len(overlays) = 1
        /\ overlays[1].loc_ref = awb.loc_ref
        /\ overlays[1].decodes[1].config = "StrictConfig"
        /\ \A k \in DOMAIN overlays[1].decodes :
               k > 1 => overlays[1].decodes[k].config # "StrictConfig"
        /\ awb.decoder_observer \in {"decoder_observer", "adj_decoder_observer"}
        /\ awb.decoder_observer = "adj_decoder_observer" <=> adjusted.tried
        /\ IF overlays[1].decodes[1].ok
           THEN /\ Len(overlays[1].decodes) = 1
                /\ calls[Len(calls)] = Call("compare_locations", WithinBufferName)
                /\ rets[WithinBufferName] = rets["compare_locations"]
                /\ cmp.outside_obs = awb.decoder_observer
                /\ cmp.inside_obs = "buffer_observer"
                /\ rets[CascadeName] = None
           ELSE /\ Len(overlays[1].decodes) >= 2
                /\ calls[Len(calls)] = Call(CascadeName, WithinBufferName)
                /\ rets[WithinBufferName] = rets[CascadeName]
                /\ rets[WithinBufferName] \in CascadeVerdicts
                /\ rets["compare_locations"] = None

\* analyze-within-buffer, called by analyze, returned the cascade's verdict
\* after the Strict decode on its overlay failed
W14_CascadeOnSameOverlay ==
    /\ rets[WithinBufferName] = "FRC_MISMATCH"
    /\ calls[1] = Call(WithinBufferName, "analyze")
    /\ Len(overlays[1].decodes) = 3

(***************************************************************************)
(* Properties of compare_locations.                                        *)
(***************************************************************************)
\* the comparator, called with given collectors, has returned
CompareReturned == cpc = "given" /\ apc = "return"
\* index (from 0) of the last LRP
LastIndex == Len(outside_pairs) - 1
\* the placements at index k count as divergent
Divergent(k) ==
    LET o == outside_pairs[k + 1].line
        i == inside_pairs[k + 1].line
    IN  /\ o.line_id # i.line_id
        /\ k = 0 => o.end_node # i.start_node
        /\ k = LastIndex => o.start_node # i.end_node
DivergentIndexes == {k \in 0..LastIndex : Divergent(k)}
FirstDivergent == CHOOSE k \in DivergentIndexes : \A j \in DivergentIndexes : k <= j

\* C15: the comparator walks the paired candidates by LRP index and hands
\* to diagnose_score only the first index that counts as divergent (index
\* 0: the lines differ and outside.end_node differs from inside.start_node,
\* is_last false; an intermediate index: the lines differ, is_last false;
\* the last index: the lines differ and outside.start_node differs from
\* inside.end_node, is_last true); with no such index it returns
\* ALTERNATE_SHORTEST_PATH.
C15_FirstDivergentIndex ==
    CompareReturned =>
        IF DivergentIndexes = {}
        THEN retv = "ALTERNATE_SHORTEST_PATH" /\ cmp.diagnosed = NotDiagnosed
        ELSE /\ retv \in DiagnoseResults
             /\ cmp.diagnosed.index = FirstDivergent
             /\ cmp.diagnosed.lrp = outside_pairs[FirstDivergent + 1].lrp
             /\ cmp.diagnosed.outside = outside_pairs[FirstDivergent + 1].line
             /\ cmp.diagnosed.inside = inside_pairs[FirstDivergent + 1].line
             /\ cmp.diagnosed.is_last = (FirstDivergent = LastIndex)

\* the comparator diagnosed the last of three LRPs although the lines at
\* index 0 differ too (they are adjacent) and a later index would not
\* have been reached otherwise
W15_LastIndexDiagnosed ==
    /\ CompareReturned
    /\ Len(outside_pairs) = 3
    /\ outside_pairs[1].line.line_id # inside_pairs[1].line.line_id
    /\ cmp.diagnosed.index = 2
    /\ cmp.diagnosed.is_last

(***************************************************************************)
(* Properties of diagnose_score.                                           *)
(***************************************************************************)
DiagnoseReturned == dpc = "done"
InsideFlagSet ==
    \/ in_score_collector.frc_reject
    \/ in_score_collector.bearing_reject
    \/ in_score_collector.score_reject
AxisVerdicts ==
    <<"BETTER_GEOLOCATION_FOUND", "BETTER_BEARING_FOUND", "BETTER_FRC_FOUND",
      "BETTER_FOW_FOUND">>
\* weight * (outside score - inside score) of the axes geo, bearing, frc, fow
WeightedDelta ==
    <<reader_config.geo_weight *
        (out_score_collector.geo_score - in_score_collector.geo_score),
      reader_config.bear_weight *
        (out_score_collector.bearing_score - in_score_collector.bearing_score),
      reader_config.frc_weight *
        (out_score_collector.frc_score - in_score_collector.frc_score),
      reader_config.fow_weight *
        (out_score_collector.fow_score - in_score_collector.fow_score)>>
\* position, in the order geo, bearing, frc, fow, of the axis reported
Reported == CHOOSE k \in 1..4 : AxisVerdicts[k] = diagnosis
AxisReported == DiagnoseReturned /\ ~InsideFlagSet

\* C16: diagnose_score decides on the inside collector's rejection flags
\* first, in fixed precedence: BETTER_FRC_FOUND if frc_reject is set, else
\* BETTER_BEARING_FOUND if bearing_reject is set, else BETTER_SCORE_FOUND if
\* score_reject is set; the outside collector's flags do not influence the
\* verdict, and the deltas are computed only when no inside flag is set.
C16_InsideFlagsFirst ==
    DiagnoseReturned =>
        /\ in_score_collector.frc_reject => diagnosis = "BETTER_FRC_FOUND"
        /\ (~in_score_collector.frc_reject /\ in_score_collector.bearing_reject)
              => diagnosis = "BETTER_BEARING_FOUND"
        /\ (~in_score_collector.frc_reject /\ ~in_score_collector.bearing_reject
              /\ in_score_collector.score_reject)
              => diagnosis = "BETTER_SCORE_FOUND"
        /\ InsideFlagSet <=> components = <<>>
        /\ ~InsideFlagSet =>
              /\ diagnosis \in {AxisVerdicts[k] : k \in 1..4}
              /\ components = WeightedDelta

\* the inside collector holds bearing_reject and score_reject, the outside
\* collector frc_reject: the verdict follows the inside flags
W16_BearingBeforeScore ==
    /\ DiagnoseReturned
    /\ ~in_score_collector.frc_reject
    /\ in_score_collector.bearing_reject /\ in_score_collector.score_reject
    /\ out_score_collector.frc_reject
    /\ diagnosis = "BETTER_BEARING_FOUND"

\* C17 as stated: when no rejection flag is set, the axis reported is the
\* one whose weighted delta weight * (outside score - inside score) is the
\* largest of the four, and that delta is positive.
C17_LargestPositiveDelta ==
    AxisReported =>
        /\ \A k \in 1..4 : WeightedDelta[k] <= WeightedDelta[Reported]
        /\ WeightedDelta[Reported] > 0

\* C17, amended: when no rejection flag is set, the axis reported is one
\* whose weighted delta is the largest of the four; that delta need not be
\* positive.
C17_LargestDelta ==
    AxisReported => \A k \in 1..4 : WeightedDelta[k] <= WeightedDelta[Reported]

\* the frc axis is reported with a delta of zero, the largest of the four:
\* on the axes before it the outside candidate scores worse
W17_LargestIsNotPositive ==
    /\ AxisReported
    /\ diagnosis = "BETTER_FRC_FOUND"
    /\ WeightedDelta[3] = 0
    /\ WeightedDelta[1] < 0 /\ WeightedDelta[2] < 0

\* C18: when several axes share the maximum weighted delta, including the
\* case where all four deltas are exactly zero, the verdict names the first
\* of them in the order geo, bearing, frc, fow.
C18_TieBreakOrder ==
    AxisReported =>
        LET maximal == {k \in 1..4 : \A j \in 1..4 : WeightedDelta[j] <= WeightedDelta[k]}
        IN  Reported \in maximal /\ \A k \in maximal : Reported <= k

\* all four weighted deltas are zero and the geo axis is reported
W18_AllZeroReportsGeo ==
    /\ AxisReported
    /\ WeightedDelta = <<0, 0, 0, 0>>
    /\ out_score_collector.geo_score = 1
    /\ diagnosis = "BETTER_GEOLOCATION_FOUND"

(***************************************************************************)
(* Properties of the overlay's candidate queries.                          *)
(***************************************************************************)
Queried == opc = "queried"
SameCoordinates(a, b) == a.lon = b.lon /\ a.lat = b.lat
\* the last query was made with the coordinates of the first or last LRP
AtFirstOrLastCoordinates ==
    \/ SameCoordinates(query.coord, loc_ref[1])
    \/ SameCoordinates(query.coord, loc_ref[Len(loc_ref)])
\* the last query was made for an intermediate LRP
ForIntermediateLrp == 1 < query.index /\ query.index < Len(loc_ref)
CloserThan(dist, coord) ==
    {l \in LineIds : Abs(LineAt[l].lon - coord.lon) + Abs(LineAt[l].lat - coord.lat) < dist}

\* C19 as stated: a find_lines_close_to(coord, dist) call with coord equal
\* to the coordinates of the first or the last LRP returns every overlay
\* line closer than dist regardless of containment, and after the call
\* entry_or_exit is true on each line it returned.
C19_FlagOnEveryReturnedLine ==
    (Queried /\ AtFirstOrLastCoordinates) =>
        /\ query.returned = CloserThan(query.dist, query.coord)
        /\ \A l \in query.returned : lines[l].entry_or_exit

\* C19, amended: such a call returns every overlay line closer than dist
\* regardless of containment, and sets entry_or_exit on each returned line
\* that is not contained in the buffer; the flag of every other line is
\* left as it was.
C19_FlagOnReturnedUncontained ==
    (Queried /\ AtFirstOrLastCoordinates) =>
        /\ query.returned = CloserThan(query.dist, query.coord)
        /\ \A l \in LineIds :
             lines[l].entry_or_exit =
               (query.before[l] \/ (l \in query.returned /\ ~lines[l].contained_in_buffer))

\* a query for the last LRP, whose coordinates differ from the first's,
\* returned a line outside the buffer, now flagged, and a contained line,
\* not flagged
W19_BothKindsReturned ==
    /\ Queried
    /\ query.index = Len(loc_ref)
    /\ ~SameCoordinates(loc_ref[1], loc_ref[Len(loc_ref)])
    /\ query.returned = LineIds
    /\ ~lines["x"].contained_in_buffer /\ lines["x"].entry_or_exit
    /\ lines["y"].contained_in_buffer /\ ~lines["y"].entry_or_exit

\* C20: a line not contained in the buffer is offered only for the first
\* or the last LRP: a query made for an intermediate LRP, whatever its
\* coordinates (also when they equal those of the first or last LRP, as in
\* a closed loop), returns only lines contained in the buffer and changes
\* no entry_or_exit flag.
C20_IntermediateOnlyContained ==
    (Queried /\ ForIntermediateLrp) =>
        /\ \A l \in query.returned : lines[l].contained_in_buffer
        /\ \A l \in LineIds : lines[l].entry_or_exit = query.before[l]

(***************************************************************************)
(* Properties of the overlay's road network.                               *)
(***************************************************************************)
NetworkBuilt == rows # <<>> /\ opc # "rows"
\* the ids a and b differ only by a leading "-" on one of them
DifferByLeadingMinus(a, b) ==
    \/ Len(a) = Len(b) + 1 /\ Head(a) = "-" /\ Tail(a) = b
    \/ Len(b) = Len(a) + 1 /\ Head(b) = "-" /\ Tail(b) = a
\* the lines a call with this source may return: all but the source's peer
NotPeerOf(source) ==
    {l \in DOMAIN lines : source = NoLine \/ ~DifferByLeadingMinus(l, source)}
ContainedOrFlagged ==
    {l \in DOMAIN lines : lines[l].contained_in_buffer \/ lines[l].entry_or_exit}

\* C21: in every overlay state, Node.outgoing_lines(source) and
\* Node.incoming_lines(source) return exactly the lines leaving
\* (respectively entering) the node that are contained_in_buffer or flagged
\* entry_or_exit and are not the peer of source, two lines being peers
\* exactly when their ids differ only by a leading "-" on one of them; with
\* no source no line is excluded as a peer.
C21_NodeLines ==
    NetworkBuilt =>
        \A node \in NodeIds, source \in DOMAIN lines \cup {NoLine} :
            /\ outgoing_lines(node, source) =
                 {l \in ContainedOrFlagged \cap NotPeerOf(source) : lines[l].from_int = node}
            /\ incoming_lines(node, source) =
                 {l \in ContainedOrFlagged \cap NotPeerOf(source) : lines[l].to_int = node}

\* a route went on from a flagged line that the buffer does not contain,
\* and the call that extended it left out that line's peer, which is
\* contained or flagged itself
W21_PeerLeftOut ==
    /\ Len(route) = 2
    /\ ~lines[route[1]].contained_in_buffer /\ lines[route[1]].entry_or_exit
    /\ Minus(route[1]) \in ContainedOrFlagged
    /\ Minus(route[1]) \notin outgoing_lines(lines[route[1]].to_int, route[1])
    /\ Minus(route[1]) \in outgoing_lines(lines[route[1]].to_int, NoLine)

\* C22: no route built by following outgoing_lines(source) from line to
\* line contains both a line and its peer, at any two positions of the
\* route and not only at consecutive ones.
C22_NoPeersInRoute ==
    \A i \in DOMAIN route, j \in DOMAIN route : ~DifferByLeadingMinus(route[i], route[j])

\* the lines made from row r
LinesOfRow(r) == {l \in DOMAIN lines : l[Len(l)] = r}

\* C23: in every overlay a line "-x" exists only if the database row x is
\* marked bidirectional, and then it is the exact reverse of x: reversed
\* geometry, start and end node swapped, the same FRC, FOW and length; a
\* row not marked bidirectional yields exactly one line.
C23_PeerIsExactReverse ==
    NetworkBuilt =>
        /\ \A l \in DOMAIN lines :
             /\ lines[l].id = l
             /\ Head(l) = "-" => (Len(l) = 2 /\ rows[l[2]].direction = 1)
        /\ \A r \in RowIds :
             /\ <<r>> \in DOMAIN lines
             /\ lines[<<r>>].from_int = rows[r].start_id
             /\ lines[<<r>>].to_int = rows[r].end_id
             /\ IF rows[r].direction = 1
                THEN /\ LinesOfRow(r) = {<<r>>, <<"-", r>>}
                     /\ LET x == lines[<<r>>]
                            p == lines[<<"-", r>>]
                        IN  /\ Len(p.geometry) = Len(x.geometry)
                            /\ \A k \in DOMAIN x.geometry :
                                 p.geometry[k] = x.geometry[Len(x.geometry) + 1 - k]
                            /\ p.from_int = x.to_int /\ p.to_int = x.from_int
                            /\ p.frc = x.frc /\ p.fow = x.fow /\ p.length = x.length
                ELSE LinesOfRow(r) = {<<r>>}

\* an overlay built from a bidirectional row x between two different nodes
\* and a one-way row y
W23_OnePeerOnly ==
    /\ NetworkBuilt
    /\ rows["x"].direction = 1 /\ rows["x"].start_id # rows["x"].end_id
    /\ rows["y"].direction = 2
    /\ DOMAIN lines = {<<"x">>, <<"-", "x">>, <<"y">>}

(***************************************************************************)
(* Properties of the decodes on an overlay.                                *)
(***************************************************************************)
\* every decode run on an overlay so far, with the overlay's position
OverlayDecodes ==
    {[o |-> o, k |-> k] : o \in DOMAIN overlays, k \in 1..6} \cap
    UNION {{[o |-> o, k |-> k] : k \in DOMAIN overlays[o].decodes} : o \in DOMAIN overlays}
DecodeAt(p) == overlays[p.o].decodes[p.k]
RaisedIn(config) ==
    \E p \in OverlayDecodes : DecodeAt(p).config = config /\ DecodeAt(p).ended = "raised"

AdjustReturned == adj.status = "returned"

\* the reference passed to adjust_locref has no offset
NoOffsets == encoded_loc_ref.poffs = 0 /\ encoded_loc_ref.noffs = 0

\* the k-th LRP after the call is not the k-th LRP before it
Differs(k) == encoded_loc_ref.points[k] # OriginalPoints[k]

\* the k-th LRP after the call has the lon/lat, bearing or dnp it had before
SameLon(k) == encoded_loc_ref.points[k].lon = OriginalPoints[k].lon
SameBear(k) == encoded_loc_ref.points[k].bear = OriginalPoints[k].bear
SameDnp(k) == encoded_loc_ref.points[k].dnp = OriginalPoints[k].dnp

\* C25: adjust_locref(L, S) returns L itself, with its LRPs and offsets
\* unchanged, whenever L.poffs = 0 and L.noffs = 0.
C25_NoOffsetsReturnsItself ==
    (adj.status # None /\ NoOffsets) =>
        /\ AdjustReturned
        /\ adj.itself
        /\ encoded_loc_ref.points = OriginalPoints
        /\ adj.poffs = encoded_loc_ref.poffs /\ adj.noffs = encoded_loc_ref.noffs

W25_ReturnedItself == AdjustReturned /\ NoOffsets /\ adj.itself

\* what every returned adjustment of a reference with an offset satisfies
AdjustedShape ==
    LET n == Len(OriginalPoints)
    IN  /\ ~adj.itself
        /\ adj.poffs = 0 /\ adj.noffs = 0
        /\ Len(encoded_loc_ref.points) = n
        /\ \A k \in 1..n :
               encoded_loc_ref.points[k].attrs = OriginalPoints[k].attrs
        /\ SameDnp(n)
        /\ Differs(n) => encoded_loc_ref.noffs > 0
        /\ \A k \in 1..n : k \notin {1, n - 1, n} => ~Differs(k)

\* C26 as stated: for a reference with a nonzero offset, adjust_locref
\* returns a reference with poffs = noffs = 0 and the same number of LRPs,
\* every LRP keeps frc, fow and lfrcnp, the first LRP differs from the
\* input's only when poffs > 0, the penultimate differs only in dnp and
\* only when noffs > 0, the last differs only in position and bearing and
\* only when noffs > 0, and every other LRP is identical.
C26_AsStated ==
    (AdjustReturned /\ ~NoOffsets) =>
        LET n == Len(OriginalPoints)
        IN  /\ AdjustedShape
            /\ Differs(1) => encoded_loc_ref.poffs > 0
            /\ SameLon(n - 1) /\ SameBear(n - 1)
            /\ Differs(n - 1) => encoded_loc_ref.noffs > 0

\* C26 (amended): for a reference with a nonzero offset, adjust_locref
\* returns a reference with poffs = noffs = 0 and the same number of LRPs,
\* every LRP keeps frc, fow and lfrcnp, the last LRP differs only in
\* position and bearing and only when noffs > 0, and every LRP other than
\* the first, the penultimate and the last is identical.  With three or
\* more LRPs the first differs only when poffs > 0 and the penultimate
\* differs only in dnp and only when noffs > 0.  With two LRPs the first
\* LRP is the penultimate: it differs only when poffs > 0 or noffs > 0, and
\* only in dnp when poffs = 0.
C26_AdjustedReference ==
    (AdjustReturned /\ ~NoOffsets) =>
        LET n == Len(OriginalPoints)
        IN  /\ AdjustedShape
            /\ n >= 3 =>
                  /\ Differs(1) => encoded_loc_ref.poffs > 0
                  /\ SameLon(n - 1) /\ SameBear(n - 1)
                  /\ Differs(n - 1) => encoded_loc_ref.noffs > 0
            /\ n = 2 =>
                  /\ encoded_loc_ref.poffs = 0 => SameLon(1) /\ SameBear(1)
                  /\ encoded_loc_ref.noffs = 0 => SameDnp(2) /\ ~Differs(2)

W26_AllThreeAdjusted ==
    /\ AdjustReturned
    /\ encoded_loc_ref.poffs > 0 /\ encoded_loc_ref.noffs > 0
    /\ Len(OriginalPoints) >= 4
    /\ Differs(1) /\ ~Differs(2)
    /\ ~SameDnp(Len(OriginalPoints) - 1)
    /\ ~SameLon(Len(OriginalPoints)) /\ ~SameBear(Len(OriginalPoints))

\* ---------------------------------------------------------------------
\* the aggregator's buckets and its output file
\* ---------------------------------------------------------------------

\* positions of the verdicts the aggregator has received
Received == {k \in DOMAIN tookOut : IsVerdict(tookOut[k])}

\* verdict k arrived before with the same result, code and fraction
Repeats(k) ==
    \E j \in Received :
        /\ j < k
        /\ tookOut[j].res = tookOut[k].res
        /\ tookOut[j].olr = tookOut[k].olr
        /\ tookOut[j].frac = tookOut[k].frac

\* the code of verdict k arrived before with another fraction
RepeatsCode(k) ==
    \E j \in Received :
        j < k /\ tookOut[j].olr = tookOut[k].olr /\ tookOut[j].frac # tookOut[k].frac

\* the bucket DUPLICATE_OPENLR_CODE holds an entry made for this code
RecordedAsDuplicate(name) ==
    \E e \in results["DUPLICATE_OPENLR_CODE"] :
        e[1].olr = name.olr /\ e[1].sfx = "Duplicate" /\ e[2] = 0

RECURSIVE SumFrac(_)
SumFrac(ks) ==
    IF ks = {} THEN 0
    ELSE LET k == CHOOSE x \in ks : TRUE
         IN  tookOut[k].frac + SumFrac(ks \ {k})

\* the verdicts that were not in their bucket when they arrived
Fresh == {k \in Received : ~Repeats(k)}

\* C27: a verdict whose (olr, fraction) pair is already in the bucket of
\* its result is recorded under DUPLICATE_OPENLR_CODE, and the count and
\* the total fraction are those of the other verdicts only.
C27_DuplicateNotCounted ==
    /\ \A k \in Received : Repeats(k) => RecordedAsDuplicate(tookOut[k].olr)
    /\ \A k \in Received : <<tookOut[k].olr, tookOut[k].frac>> \in results[tookOut[k].res]
    /\ count = Cardinality(Fresh)
    /\ total_frac = SumFrac(Fresh)

W27_DuplicateReceived ==
    /\ \E k \in Received : Repeats(k)
    /\ count > 0
    /\ count < Cardinality(Received)

\* C28: a verdict whose olr arrived before with a different fraction is
\* recorded as DUPLICATE_OPENLR_CODE and excluded from the statistics.
C28_AnyFractionIsDuplicate ==
    \A k \in Received :
        RepeatsCode(k) =>
            /\ RecordedAsDuplicate(tookOut[k].olr)
            /\ count = Cardinality({tookOut[j].olr : j \in Received})

\* the records written to the output file so far
Written == {k \in DOMAIN outf : outf[k].text = "rec"}

\* C30: the first location record written has no leading comma and every
\* later record is preceded by exactly one comma, whatever the order in
\* which verdicts, duplicates and sentinels reach the aggregator.
C30_CommaBetweenRecords ==
    \A k \in Written : outf[k].comma <=> (\E j \in Written : j < k)

W30_RecordsAroundSentinel ==
    /\ Cardinality(Written) >= 2
    /\ \E j, k \in Received :
          j < k /\ Repeats(k) /\ \E p \in j..k : IsPill(tookOut[p])

\* ---------------------------------------------------------------------
\* the verdicts of analyze
\* ---------------------------------------------------------------------

\* the values the aggregator assigns, never the analyzer
AggregatorOnly == {"DUPLICATE_OPENLR_CODE", "UNKNOWN_ERROR"}

\* C29: analyze never returns DUPLICATE_OPENLR_CODE or UNKNOWN_ERROR: on
\* every returning path the verdict is one of the other sixteen
\* AnalysisResult values, never a missing one.
C29_SixteenVerdicts ==
    /\ Cardinality(AnalysisResult \ AggregatorOnly) = 16
    /\ AnalyzeReturned => outcome.res \in AnalysisResult \ AggregatorOnly
    /\ \A p \in Procs : rets[p] # None => rets[p] \in AnalysisResult \ AggregatorOnly

W29_DiagnosisReturned ==
    /\ AnalyzeReturned
    /\ outcome.res = "BETTER_FOW_FOUND"
    /\ rets["compare_locations"] = "BETTER_FOW_FOUND"

\* ---------------------------------------------------------------------
\* the caller's reference after adjust_locref
\* ---------------------------------------------------------------------

\* an overlay built by adjust-and-match after the re-decode failed
OverlayAfterFailedRedecode ==
    /\ adjusted.tried /\ ~adjusted.ok
    /\ Len(overlays) = 1
    /\ overlays[1].loc_ref = "encoded_loc_ref"

\* C34: adjust_locref leaves the reference passed to it unchanged: after a
\* call with a nonzero offset the caller's reference still has its original
\* LRPs, so the overlay that adjust-and-match builds from the encoded
\* reference after a failed re-decode is keyed on the original first and
\* last LRP coordinates.
C34_ArgumentUnchanged ==
    /\ (adj.status # None /\ ~NoOffsets) => encoded_loc_ref.points = OriginalPoints
    /\ OverlayAfterFailedRedecode =>
          /\ SameLon(1)
          /\ SameLon(Len(OriginalPoints))

\* ---------------------------------------------------------------------
\* build_decoded_ls
\* ---------------------------------------------------------------------

\* build_decoded_ls has returned
Built == decoded_ls # NoLs

\* what is left of the path after the reduced offsets, in half metres
Remaining ==
    Half(decode_result.length) - ReducedOffsets(decode_result).pos
        - ReducedOffsets(decode_result).neg

Degenerate(ls) == ls.from = ls.to

\* C32: when the offsets of a decoded location leave less than 1 metre of
\* the path, build_decoded_ls reduces the offsets so that the remaining
\* length is at least 1 metre, for every total length and offsets.
C32_AtLeastOneMetre ==
    (Built /\ TooShort(decode_result)) =>
        /\ Remaining >= Half(1)
        /\ decoded_ls.to - decoded_ls.from >= Half(1)

\* C33: whenever p_off + n_off is at least the sum of the decoded lines'
\* lengths, build_decoded_ls returns a zero-length degenerate line located
\* at an endpoint of the joined geometry.
C33_CollapsedAtEndpoint ==
    (Built /\ decode_result.p_off + decode_result.n_off >= decode_result.length) =>
        /\ Degenerate(decoded_ls)
        /\ decoded_ls.from \in {0, Half(decode_result.length)}

\* by how much the offsets exceed the summed length, in metres
Excess == decode_result.p_off + decode_result.n_off - decode_result.length

\* both offsets are at least the reduction max(Excess / 2, 1)
BothReducible ==
    /\ Half(decode_result.p_off) >= Larger(Excess, Half(1))
    /\ Half(decode_result.n_off) >= Larger(Excess, Half(1))

\* C33 (amended): build_decoded_ls returns a zero-length degenerate line
\* exactly when the offsets left by its reduction together reach the summed
\* length of the decoded lines; the line lies at the last coordinate of the
\* joined geometry when the reduced p_off alone reaches that length, and
\* otherwise at the point reduced p_off into it.  When p_off + n_off is at
\* least the summed length and both offsets are at least the reduction,
\* the result is degenerate exactly when the excess is 2 metres or more,
\* and is otherwise a line of 2 metres minus the excess.
C33_CollapsedByReducedOffsets ==
    Built =>
        LET off == ReducedOffsets(decode_result)
            len == Half(decode_result.length)
        IN  /\ Degenerate(decoded_ls) <=>
                  /\ decode_result.p_off > 0 \/ decode_result.n_off > 0
                  /\ off.pos + off.neg >= len
            /\ Degenerate(decoded_ls) =>
                  decoded_ls.from = IF off.pos >= len THEN len ELSE off.pos
            /\ (Excess >= 0 /\ BothReducible) =>
                  /\ Degenerate(decoded_ls) <=> Excess >= 2
                  /\ Excess < 2 =>
                        decoded_ls.to - decoded_ls.from = Half(2) - Half(Excess)

W33_CollapsedInsideTheLine ==
    /\ Built
    /\ Excess >= 0
    /\ Degenerate(decoded_ls)
    /\ decoded_ls.from \notin {0, Half(decode_result.length)}

\* ---------------------------------------------------------------------
\* entry_or_exit over the decodes on one overlay
\* ---------------------------------------------------------------------

\* the last query was made for the first or the last LRP of the reference
EndQuery == query.index \in {1, Len(loc_ref)}

\* the last query set the flag of line l
FlagSetByQuery(l) == lines[l].entry_or_exit /\ ~query.before[l]

\* C35: across any sequence of decodes on one overlay, entry_or_exit is
\* false on every line at construction, is set only by a find_lines_close_to
\* query for the first or last LRP and only on lines not contained in the
\* buffer, and is never reset; so a line not contained in the buffer can be
\* returned by a traversal only if such a query returned it.
C35_FlagSetByEndQueriesOnly ==
    /\ opc = "built" => \A l \in DOMAIN lines : ~lines[l].entry_or_exit
    /\ opc = "queried" =>
          \A l \in DOMAIN lines :
              /\ query.before[l] => lines[l].entry_or_exit
              /\ FlagSetByQuery(l) =>
                    /\ EndQuery
                    /\ ~lines[l].contained_in_buffer
                    /\ l \in query.returned
              /\ (Usable(lines[l]) /\ ~lines[l].contained_in_buffer) =>
                    lines[l].entry_or_exit

\* the arrivals the aggregator recognized as duplicates
Duplicates == {k \in Received : Repeats(k)}

\* C36: every duplicate arrival is an entry of its own: the bucket
\* DUPLICATE_OPENLR_CODE holds as many entries as there were arrivals
\* recognized as duplicates, also when the same verdict arrives three
\* times or more with no new verdict in between.
C36_EveryDuplicateRecorded ==
    Cardinality(results["DUPLICATE_OPENLR_CODE"]) = Cardinality(Duplicates)

\* the aggregator has counted the N-th sentinel
AllPillsCounted == PillsTaken = num_threads

\* C37: no verdict is lost at shutdown.  On q_in no record stands behind a
\* sentinel, and no worker puts anything on q_out after its sentinel; so
\* once the aggregator has counted the N-th sentinel every record put on
\* q_in has its verdict, the aggregator has taken everything that was put
\* on q_out, in the order it was put, and both queues are empty.
C37_NoVerdictLost ==
    /\ \A j, k \in DOMAIN q_in : (j < k /\ IsPill(q_in[j])) => IsPill(q_in[k])
    /\ \A j, k \in DOMAIN putOut :
          (putOut[j].by = putOut[k].by /\ IsPill(putOut[j].msg)) => k <= j
    /\ AllPillsCounted =>
          /\ \A k \in DOMAIN putIn :
                ~IsPill(putIn[k]) => Cardinality(VerdictsFor(putIn[k].i)) = 1
          /\ tookOut = [k \in DOMAIN putOut |-> putOut[k].msg]
          /\ q_out = <<>>
          /\ q_in = <<>>
          /\ \A w \in 1..num_threads : pcW[w] = "done"

\* the N-th sentinel of a run with two workers is counted, each worker
\* having put a verdict before its sentinel
W37_LastSentinelCounted ==
    /\ AllPillsCounted
    /\ pcM = "recv"
    /\ num_threads = 2
    /\ \A w \in 1..num_threads : \E k \in PutsBy(w) : IsVerdict(putOut[k].msg)

C31_SameVerdictTwice ==
    /\ Len(returned) = 2 => returned[1] = returned[2]
    /\ rpc = "match_location" => t_loc_ref = binary_decode(olr_code)
    /\ \A a \in answers :
          /\ a.ask.op = "StrictConfig" => a.ask.reader.decodes = <<>>
          /\ a.ask.op = "AnyPath" =>
                \A k \in DOMAIN a.ask.reader.decodes :
                    k = 1 /\ a.ask.reader.decodes[k].config = "StrictConfig"
    /\ rpc # "idle" => analysis_observer = frame.observer

\* the second call has returned after adjust_locref rewrote its reference
\* and the cascade ran on its overlay, as in the first call
W31_SecondCallAdjustedAndCascaded ==
    /\ Len(returned) = 2
    /\ t_loc_ref # binary_decode(olr_code)
    /\ Len(buffer_map_reader.decodes) > 1
    /\ returned[2] = Returning("FRC_MISMATCH", 50)

====
